---- MODULE Spec2Model ----
(***************************************************************************)
(* A model of the ts.data.json decoder combinators.  A decoder is a value  *)
(* wrapping a function json -> Result; the combinators build decoders out  *)
(* of decoders.  Decoders are modelled as tagged records, and decoding as  *)
(* a recursive operator that returns the Result together with the log of   *)
(* the decoder calls that were made, each call with the path (field keys   *)
(* and list indices) that leads to it.                                     *)
(***************************************************************************)
EXTENDS Integers, Sequences, FiniteSets, TLC

VARIABLES decoder, json, outcome, log, history

vars == <<decoder, json, outcome, log, history>>

(***************************************************************************)
(* Bounds of the explored inputs.                                          *)
(***************************************************************************)
MaxLen == 2

\* levels of children below the root of the trees explored
TreeDepth == 2

\* decode calls made on a shared decoder
MaxCalls == 3

MaxKeys == 2

(***************************************************************************)
(* The dynamic values a decoder is fed: maps, lists, strings, numbers,     *)
(* booleans, null and undefined.  A map keeps its keys in insertion order, *)
(* as for..in enumerates them.                                             *)
(***************************************************************************)
Undefined == [t |-> "undefined"]

Null == [t |-> "null"]

Str(s) == [t |-> "string", s |-> s]

Num(n) == [t |-> "number", n |-> n]

Bool(b) == [t |-> "boolean", b |-> b]

List(items) == [t |-> "array", items |-> items]

Obj(entries) == [t |-> "object", entries |-> entries]

Entry(key, value) == [key |-> key, value |-> value]

\* the number that is not a number
NaN == [t |-> "number", nan |-> TRUE]

IsNaN(v) == "nan" \in DOMAIN v

Range(seq) == {seq[i] : i \in 1..Len(seq)}

\* typeof json
typeof(v) ==
  CASE v.t = "undefined" -> "undefined"
    [] v.t = "string" -> "string"
    [] v.t = "number" -> "number"
    [] v.t = "boolean" -> "boolean"
    [] OTHER -> "object"

\* the keys for (const key in json) enumerates: own keys of a map in
\* insertion order, the indices of a list
RECURSIVE IndexKeys(_)
IndexKeys(n) == IF n = 0 THEN <<>> ELSE Append(IndexKeys(n - 1), ToString(n - 1))

ForInKeys(v) ==
  CASE v.t = "object" -> [i \in 1..Len(v.entries) |-> v.entries[i].key]
    [] v.t = "array" -> IndexKeys(Len(v.items))
    [] v.t = "string" -> IndexKeys(Len(v.s))
    [] OTHER -> <<>>

\* json[key] for a key that is a field name; reading a property of null or
\* undefined raises a TypeError
CanGet(v) == v.t \notin {"null", "undefined"}

Get(v, key) ==
  IF v.t = "object" /\ \E i \in 1..Len(v.entries) : v.entries[i].key = key
  THEN v.entries[CHOOSE i \in 1..Len(v.entries) : v.entries[i].key = key].value
  ELSE IF v.t = "array" /\ \E i \in 1..Len(v.items) : ToString(i - 1) = key
  THEN v.items[CHOOSE i \in 1..Len(v.items) : ToString(i - 1) = key]
  ELSE IF v.t = "string" /\ \E i \in 1..Len(v.s) : ToString(i - 1) = key
  THEN LET i == CHOOSE j \in 1..Len(v.s) : ToString(j - 1) = key
       IN  Str(SubSeq(v.s, i, i))
  ELSE Undefined

\* result[key] = value on a map under construction
Put(entries, key, value) ==
  IF \E i \in 1..Len(entries) : entries[i].key = key
  THEN [i \in 1..Len(entries) |->
          IF entries[i].key = key THEN Entry(key, value) ELSE entries[i]]
  ELSE Append(entries, Entry(key, value))

(***************************************************************************)
(* JSON.stringify, and its use inside a template string.                   *)
(***************************************************************************)
RECURSIVE JSONstringify(_)
RECURSIVE JoinItems(_, _)
RECURSIVE JoinEntries(_, _, _)

\* list elements: undefined is rendered as null
JoinItems(items, i) ==
  IF i > Len(items) THEN ""
  ELSE (IF i > 1 THEN "," ELSE "")
       \o (IF items[i].t = "undefined" THEN "null" ELSE JSONstringify(items[i]))
       \o JoinItems(items, i + 1)

\* map entries: a key holding undefined is left out
JoinEntries(entries, i, first) ==
  IF i > Len(entries) THEN ""
  ELSE IF entries[i].value.t = "undefined" THEN JoinEntries(entries, i + 1, first)
  ELSE (IF first THEN "" ELSE ",")
       \o "\"" \o entries[i].key \o "\":" \o JSONstringify(entries[i].value)
       \o JoinEntries(entries, i + 1, FALSE)

JSONstringify(v) ==
  CASE v.t = "undefined" -> "undefined"
    [] v.t = "null" -> "null"
    [] v.t = "string" -> "\"" \o v.s \o "\""
    [] v.t = "number" -> (IF IsNaN(v) THEN "null" ELSE ToString(v.n))
    [] v.t = "boolean" -> (IF v.b THEN "true" ELSE "false")
    [] v.t = "array" -> "[" \o JoinItems(v.items, 1) \o "]"
    [] v.t = "object" -> "{" \o JoinEntries(v.entries, 1, TRUE) \o "}"

\* String(v), as a template string renders a value
RECURSIVE StringOf(_)
RECURSIVE JoinStrings(_, _)

\* Array.prototype.join(','): null and undefined are rendered empty
JoinStrings(items, i) ==
  IF i > Len(items) THEN ""
  ELSE (IF i > 1 THEN "," ELSE "")
       \o (IF items[i].t \in {"undefined", "null"} THEN "" ELSE StringOf(items[i]))
       \o JoinStrings(items, i + 1)

StringOf(v) ==
  CASE v.t = "undefined" -> "undefined"
    [] v.t = "null" -> "null"
    [] v.t = "string" -> v.s
    [] v.t = "number" -> (IF IsNaN(v) THEN "NaN" ELSE ToString(v.n))
    [] v.t = "boolean" -> (IF v.b THEN "true" ELSE "false")
    [] v.t = "array" -> JoinStrings(v.items, 1)
    [] v.t = "object" -> "[object Object]"

\* Object.values(obj) of a map
ObjectValues(obj) == [i \in 1..Len(obj.entries) |-> obj.entries[i].value]

(***************************************************************************)
(* The string operations of templateLiteral.  Positions count from zero.   *)
(***************************************************************************)
\* json.startsWith(literal, position)
startsWith(s, literal, position) ==
  /\ position + Len(literal) <= Len(s)
  /\ SubSeq(s, position + 1, position + Len(literal)) = literal

\* json.indexOf(literal, position), for a position within the string
indexOf(s, literal, position) ==
  LET found == {i \in position..Len(s) : startsWith(s, literal, i)}
  IN  IF found = {} THEN -1 ELSE CHOOSE i \in found : \A j \in found : i <= j

\* json.substring(start, end), for start <= end <= length
substring(s, start, end) == SubSeq(s, start + 1, end)

CharAt(s, i) == IF i < Len(s) THEN SubSeq(s, i + 1, i + 1) ELSE ""

\* the value of a character as a digit, 36 for what is no digit
DigitOf(c) ==
  CASE c = "0" -> 0 [] c = "1" -> 1 [] c = "2" -> 2 [] c = "3" -> 3
    [] c = "4" -> 4 [] c = "5" -> 5 [] c = "6" -> 6 [] c = "7" -> 7
    [] c = "8" -> 8 [] c = "9" -> 9
    [] c \in {"a", "A"} -> 10 [] c \in {"b", "B"} -> 11 [] c \in {"c", "C"} -> 12
    [] c \in {"d", "D"} -> 13 [] c \in {"e", "E"} -> 14 [] c \in {"f", "F"} -> 15
    [] OTHER -> 36

RECURSIVE SkipWhiteSpace(_, _)
SkipWhiteSpace(s, i) ==
  IF CharAt(s, i) \in {" ", "\t", "\n", "\r"} THEN SkipWhiteSpace(s, i + 1) ELSE i

\* the digits of the radix from position i on: their value, NaN when there
\* is none
RECURSIVE ParseDigits(_, _, _, _, _)
ParseDigits(s, i, radix, acc, any) ==
  IF DigitOf(CharAt(s, i)) < radix
  THEN ParseDigits(s, i + 1, radix, acc * radix + DigitOf(CharAt(s, i)), TRUE)
  ELSE IF any THEN Num(acc) ELSE NaN

\* parseInt(string): leading white space, a sign, 0x for radix 16, then the
\* longest run of digits; what follows the digits is ignored
parseInt(s) ==
  LET i == SkipWhiteSpace(s, 0)
      signed == CharAt(s, i) \in {"+", "-"}
      j == IF signed THEN i + 1 ELSE i
      hex == CharAt(s, j) = "0" /\ CharAt(s, j + 1) \in {"x", "X"}
      digits == IF hex THEN ParseDigits(s, j + 2, 16, 0, FALSE)
                ELSE ParseDigits(s, j, 10, 0, FALSE)
  IN  IF IsNaN(digits) THEN NaN
      ELSE IF CharAt(s, i) = "-" THEN Num(0 - digits.n)
      ELSE digits

(***************************************************************************)
(* Result                                                                  *)
(***************************************************************************)
ok(value) == [kind |-> "Ok", value |-> value]

err(error) == [kind |-> "Err", error |-> error]

\* not a Result: the call did not return, an exception propagated
Thrown(exc) == [kind |-> "Throw", exc |-> exc]

isOk(r) == r.kind = "Ok"

(***************************************************************************)
(* Error messages                                                          *)
(***************************************************************************)
primitiveError(value, tag) == JSONstringify(value) \o " is not a valid " \o tag

objectError(decoderName, key, error) ==
  "<" \o decoderName \o "> decoder failed at key \"" \o key
      \o "\" with error: " \o error

objectStrictUnknownKeyError(decoderName, key) ==
  "Unknown key \"" \o key \o "\" found while processing strict <"
      \o decoderName \o "> decoder"

arrayError(decoderName, index, error) ==
  "<" \o decoderName \o "> decoder failed at index \"" \o ToString(index)
      \o "\" with error: " \o error

\* the message with the two counts exchanged
tupleLengthMismatchError_SwapsCounts(decoderName, jsonArray, decoders) ==
  "<" \o decoderName \o "> tuple decoder failed because it received a tuple of length "
      \o ToString(Len(decoders)) \o ", but " \o ToString(Len(jsonArray))
      \o " decoders."

tupleLengthMismatchError(decoderName, jsonArray, decoders) ==
  "<" \o decoderName \o "> tuple decoder failed because it received a tuple of length "
      \o ToString(Len(jsonArray)) \o ", but " \o ToString(Len(decoders))
      \o " decoders."

recordError(decoderName, key, error) ==
  "<" \o decoderName \o "> record decoder failed at key \"" \o key
      \o "\" with error: " \o error

oneOfError(decoderName, value) ==
  "<" \o decoderName \o "> decoder failed because " \o JSONstringify(value)
      \o " can't be decoded with any of the provided oneOf decoders"

\* the message with the position counted from one
allOfError_OneBased(decoderName, index, error) ==
  "<" \o decoderName \o "> allOf decoder failed at index #" \o ToString(index + 1)
      \o " with \"" \o error \o "\""

allOfError(decoderName, index, error) ==
  "<" \o decoderName \o "> allOf decoder failed at index #" \o ToString(index)
      \o " with \"" \o error \o "\""

enumValueError(decoderName, invalidValue) ==
  "<" \o decoderName \o "> decoder failed at value \"" \o StringOf(invalidValue)
      \o "\" which is not in the enum"

exactlyError(json_, value) ==
  JSONstringify(json_) \o " is not exactly " \o JSONstringify(value)

undefinedError(value) == JSONstringify(value) \o " is not undefined"

(***************************************************************************)
(* Decoders.  Each constructor returns the decoder as a tagged record; the *)
(* function the decoder wraps is the <name>DecodeFn operator below.        *)
(***************************************************************************)
string == [k |-> "string"]

number == [k |-> "number"]

boolean == [k |-> "boolean"]

succeed == [k |-> "succeed"]

fail(error) == [k |-> "fail", error |-> error]

optional(d) == [k |-> "optional", decoder |-> d]

\* a declared field of an object decoder: a decoder, or {fromKey, decoder}
Field(key, d) == [key |-> key, decoder |-> d]

FieldFrom(key, fromKey, d) == [key |-> key, fromKey |-> fromKey, decoder |-> d]

\* decoderObject instanceof Decoder
IsDecoder(decoderObject) == "fromKey" \notin DOMAIN decoderObject

object(decoders, decoderName) ==
  [k |-> "object", decoders |-> decoders, decoderName |-> decoderName]

objectStrict(decoders, decoderName) ==
  [k |-> "objectStrict", decoders |-> decoders, decoderName |-> decoderName]

array(d, decoderName) == [k |-> "array", decoder |-> d, decoderName |-> decoderName]

tuple(decoders, decoderName) ==
  [k |-> "tuple", decoders |-> decoders, decoderName |-> decoderName]

record(d, decoderName) ==
  [k |-> "record", decoder |-> d, decoderName |-> decoderName]

fallback(defaultValue, d) ==
  [k |-> "fallback", defaultValue |-> defaultValue, decoder |-> d]

oneOf(decoders, decoderName) ==
  [k |-> "oneOf", decoders |-> decoders, decoderName |-> decoderName]

allOf(decoders, decoderName) ==
  [k |-> "allOf", decoders |-> decoders, decoderName |-> decoderName]

map(d, fn) == [k |-> "map", decoder |-> d, fn |-> fn]

enumeration(enumObj, decoderName) ==
  [k |-> "enumeration", enumObj |-> enumObj, decoderName |-> decoderName]

literal(value) == [k |-> "literal", value |-> value]

\* parts: string literals, number literals and decoders
templateLiteral(parts) == [k |-> "templateLiteral", parts |-> parts]

undefined_ == [k |-> "undefined"]

lazy(mkDecoder) == [k |-> "lazy", mkDecoder |-> mkDecoder]

flatMap(d, fn) == [k |-> "flatMap", decoder |-> d, fn |-> fn]

(***************************************************************************)
(* The functions handed to flatMap, taken from the tests.                  *)
(***************************************************************************)
squareDecoder ==
  object(<<Field("type", string), Field("side", number)>>, "Square")

shapeDecoder == object(<<Field("type", string)>>, "Shape")

\* value => switch (value.type) { case 'square': squareDecoder; default: fail }
shapeFn(value) ==
  IF Get(value, "type") = Str("square") THEN squareDecoder
  ELSE fail("<Shape> does not support type \""
            \o (IF Get(value, "type").t = "string" THEN Get(value, "type").s
                ELSE JSONstringify(Get(value, "type"))) \o "\"")

\* age => age >= 18 ? succeed : fail(`Age ${age} is less than 18`)
adultFn(age) ==
  IF age.n >= 18 THEN succeed
  ELSE fail("Age " \o ToString(age.n) \o " is less than 18")

\* the object an enum declaration is at run time: every member under its
\* name and, for a member with a number value, its name under the value
RECURSIVE TsEnum(_)
TsEnum(members) ==
  IF members = <<>> THEN <<>>
  ELSE LET m == members[Len(members)]
           before == TsEnum(SubSeq(members, 1, Len(members) - 1))
       IN  IF m.value.t = "number"
           THEN Put(Put(before, m.key, m.value), ToString(m.value.n), Str(m.key))
           ELSE Put(before, m.key, m.value)

\* enum IntEnum { A, B, C }
IntEnum ==
  Obj(TsEnum(<<Entry("A", Num(0)), Entry("B", Num(1)), Entry("C", Num(2))>>))

\* enum OddlyOrderedIntEnum { A = 2, B = 8, C = -3, D = 0 }
OddlyOrderedIntEnum ==
  Obj(TsEnum(<<Entry("A", Num(2)), Entry("B", Num(8)), Entry("C", Num(-3)),
               Entry("D", Num(0))>>))

\* enum HeterogeneousEnum { X = 1, Y, Z = 'foo' }
HeterogeneousEnum ==
  Obj(TsEnum(<<Entry("X", Num(1)), Entry("Y", Num(2)), Entry("Z", Str("foo"))>>))

\* enum Color { Red = 'red', Blue = 'blue' }
Color == Obj(TsEnum(<<Entry("Red", Str("red")), Entry("Blue", Str("blue"))>>))

\* the recursive decoder of the tests of lazy
treeDecoder ==
  object(<<Field("value", string),
           Field("children",
                 oneOf(<<lazy("treeThunk"), map(undefined_, "emptyList")>>,
                       "Node<string>[] | isUndefined"))>>,
         "Node<string>")

\* the function of lazy that builds a list decoder which checks no node
ApplyThunk_UncheckedNodes(mkDecoder) ==
  CASE mkDecoder = "treeThunk" -> array(succeed, "Node<a>[]")
    [] mkDecoder = "stringThunk" -> string
    [] mkDecoder = "squareThunk" -> squareDecoder

\* mkDecoder(): () => array(treeDecoder, 'Node<a>[]'), () => string(),
\* () => squareDecoder
ApplyThunk(mkDecoder) ==
  CASE mkDecoder = "treeThunk" -> array(treeDecoder, "Node<a>[]")
    [] mkDecoder = "stringThunk" -> string
    [] mkDecoder = "squareThunk" -> squareDecoder

\* the functions handed to map in the tests
\* obj => ({a: obj.a + 1})
incA(obj) == Obj(<<Entry("a", Num(Get(obj, "a").n + 1))>>)

\* () => []
emptyList(value) == List(<<>>)

ApplyMapFn(fn, value) ==
  CASE fn = "incA" -> incA(value)
    [] fn = "emptyList" -> emptyList(value)

ApplyFn(fn, value) ==
  CASE fn = "shapeFn" -> shapeFn(value)
    [] fn = "adultFn" -> adultFn(value)

(***************************************************************************)
(* decode.  Every operator returns [r |-> the Result, log |-> the calls    *)
(* made below it].  A log entry of a decoder call carries the path of the  *)
(* call, the kind of decoder and the value it was given; a log entry of a  *)
(* call of a flatMap function carries the function and its argument, a log *)
(* entry of a call of the function handed to lazy carries that function.   *)
(* The path of a call below a oneOf or an allOf has the position of the    *)
(* decoder among those of the combinator as an element.                    *)
(***************************************************************************)
Call(path, d, value) == [path |-> path, k |-> d.k, json |-> value]

FnCall(path, fn, value) == [path |-> path, fn |-> fn, arg |-> value]

\* the path element of the call of the decoder at position i of a oneOf or
\* an allOf
Pos(i) == "#" \o ToString(i)

ThunkCall(path, mkDecoder) == [path |-> path, thunk |-> mkDecoder]

Done(r) == [r |-> r, log |-> <<>>]

RECURSIVE Decode(_, _, _)
RECURSIVE objectFields(_, _, _, _, _, _)
RECURSIVE objectStrictFields_BareFieldError(_, _, _, _, _, _)
RECURSIVE objectStrictFields(_, _, _, _, _, _)
RECURSIVE arrayItems(_, _, _, _, _, _)
RECURSIVE tupleItems(_, _, _, _, _, _)
RECURSIVE recordEntries(_, _, _, _, _, _, _)
RECURSIVE oneOfTry_LastMatchWins(_, _, _, _, _)
RECURSIVE oneOfTry(_, _, _, _, _)
RECURSIVE allOfLoop_PipesLists(_, _, _, _, _, _)
RECURSIVE allOfLoop(_, _, _, _, _, _)
RECURSIVE decodePart(_, _, _)
RECURSIVE templateParts(_, _, _, _, _)
RECURSIVE template_OmitsDecoders(_)
RECURSIVE template(_)

stringDecodeFn(value) ==
  IF typeof(value) = "string" THEN ok(value)
  ELSE err(primitiveError(value, "string"))

numberDecodeFn(value) ==
  IF typeof(value) = "number" THEN ok(value)
  ELSE err(primitiveError(value, "number"))

booleanDecodeFn(value) ==
  IF typeof(value) = "boolean" THEN ok(value)
  ELSE err(primitiveError(value, "boolean"))

succeedDecodeFn(value) == ok(value)

failDecodeFn(d, value) == err(d.error)

\* optional that takes null for a missing value as well
optionalDecodeFn_NullIsMissing(d, value, path) ==
  IF value = Undefined \/ value = Null THEN Done(ok(Undefined))
  ELSE Decode(d.decoder, value, path)

optionalDecodeFn(d, value, path) ==
  IF value = Undefined THEN Done(ok(Undefined))
  ELSE Decode(d.decoder, value, path)

\* the guard without its null test
IsNonNullObject_NullPasses(value) == typeof(value) = "object"

\* json !== null && typeof json === 'object'
IsNonNullObject(value) == value # Null /\ typeof(value) = "object"

\* the loop of object with the error naming the key the field was read from
objectFields_NamesSourceKey(decoders, decoderName, value, path, i, result) ==
  IF i > Len(decoders) THEN Done(ok(Obj(result)))
  ELSE IF ~CanGet(value) THEN Done(Thrown("TypeError"))
  ELSE
    LET decoderObject == decoders[i]
        key == decoderObject.key
        jsonKey == IF IsDecoder(decoderObject) THEN key ELSE decoderObject.fromKey
        r == Decode(decoderObject.decoder, Get(value, jsonKey), Append(path, key))
    IN  IF r.r.kind = "Throw" THEN r
        ELSE IF isOk(r.r)
        THEN LET rest == objectFields(decoders, decoderName, value, path, i + 1,
                                      Put(result, key, r.r.value))
             IN  [r |-> rest.r, log |-> r.log \o rest.log]
        ELSE [r |-> err(objectError(decoderName, jsonKey, r.r.error)),
              log |-> r.log]

\* the loop of object over the declared fields, from field i on
objectFields(decoders, decoderName, value, path, i, result) ==
  IF i > Len(decoders) THEN Done(ok(Obj(result)))
  ELSE IF ~CanGet(value) THEN Done(Thrown("TypeError"))
  ELSE
    LET decoderObject == decoders[i]
        key == decoderObject.key
        r == IF IsDecoder(decoderObject)
             THEN Decode(decoderObject.decoder, Get(value, key), Append(path, key))
             ELSE Decode(decoderObject.decoder,
                         Get(value, decoderObject.fromKey), Append(path, key))
    IN  IF r.r.kind = "Throw" THEN r
        ELSE IF isOk(r.r)
        THEN LET rest == objectFields(decoders, decoderName, value, path, i + 1,
                                      Put(result, key, r.r.value))
             IN  [r |-> rest.r, log |-> r.log \o rest.log]
        ELSE [r |-> err(objectError(decoderName, key, r.r.error)), log |-> r.log]

\* object that starts the result from the entries of the input
objectDecodeFn_KeepsInputKeys(d, value, path) ==
  IF IsNonNullObject(value)
  THEN objectFields(d.decoders, d.decoderName, value, path, 1,
                    IF value.t = "object" THEN value.entries ELSE <<>>)
  ELSE Done(err(primitiveError(value, d.decoderName)))

objectDecodeFn(d, value, path) ==
  IF IsNonNullObject(value)
  THEN objectFields(d.decoders, d.decoderName, value, path, 1, <<>>)
  ELSE Done(err(primitiveError(value, d.decoderName)))

\* the allowed key set made of the declared field names only
allowedKeys_DeclaredNames(decoders) ==
  {decoders[i].key : i \in 1..Len(decoders)}

\* the allowed JSON key set of objectStrict
allowedKeys(decoders) ==
  {IF IsDecoder(decoders[i]) THEN decoders[i].key ELSE decoders[i].fromKey
     : i \in 1..Len(decoders)}

\* no key is taken to be unknown
UnknownKeys_None(decoders, value) == <<>>

\* the keys of json, in enumeration order, that are not allowed
UnknownKeys(decoders, value) ==
  SelectSeq(ForInKeys(value), LAMBDA key : key \notin allowedKeys(decoders))

\* the loop of objectStrict that answers the failure of a field as it is,
\* without the decoder name and the key
objectStrictFields_BareFieldError(decoders, decoderName, value, path, i, result) ==
  IF i > Len(decoders) THEN Done(ok(Obj(result)))
  ELSE IF ~CanGet(value) THEN Done(Thrown("TypeError"))
  ELSE
    LET decoderObject == decoders[i]
        key == decoderObject.key
        r == IF IsDecoder(decoderObject)
             THEN Decode(decoderObject.decoder, Get(value, key), Append(path, key))
             ELSE Decode(decoderObject.decoder,
                         Get(value, decoderObject.fromKey), Append(path, key))
    IN  IF r.r.kind = "Throw" \/ ~isOk(r.r) THEN r
        ELSE LET rest == objectStrictFields_BareFieldError(
                           decoders, decoderName, value, path, i + 1,
                           Put(result, key, r.r.value))
             IN  [r |-> rest.r, log |-> r.log \o rest.log]

objectStrictFields(decoders, decoderName, value, path, i, result) ==
  IF i > Len(decoders) THEN Done(ok(Obj(result)))
  ELSE IF ~CanGet(value) THEN Done(Thrown("TypeError"))
  ELSE
    LET decoderObject == decoders[i]
        key == decoderObject.key
        r == IF IsDecoder(decoderObject)
             THEN Decode(decoderObject.decoder, Get(value, key), Append(path, key))
             ELSE Decode(decoderObject.decoder,
                         Get(value, decoderObject.fromKey), Append(path, key))
    IN  IF r.r.kind = "Throw" THEN r
        ELSE IF isOk(r.r)
        THEN LET rest == objectStrictFields(decoders, decoderName, value, path,
                                            i + 1, Put(result, key, r.r.value))
             IN  [r |-> rest.r, log |-> r.log \o rest.log]
        ELSE [r |-> err(objectError(decoderName, key, r.r.error)), log |-> r.log]

\* objectStrict that decodes the fields before it checks the keys
objectStrictDecodeFn_ChecksKeysLast(d, value, path) ==
  IF IsNonNullObject(value)
  THEN LET fields == objectStrictFields(d.decoders, d.decoderName, value, path,
                                        1, <<>>)
       IN  IF fields.r.kind = "Ok" /\ UnknownKeys(d.decoders, value) # <<>>
           THEN [r |-> err(objectStrictUnknownKeyError(
                             d.decoderName, Head(UnknownKeys(d.decoders, value)))),
                 log |-> fields.log]
           ELSE fields
  ELSE Done(err(primitiveError(value, d.decoderName)))

objectStrictDecodeFn(d, value, path) ==
  IF IsNonNullObject(value)
  THEN IF UnknownKeys(d.decoders, value) # <<>>
       THEN Done(err(objectStrictUnknownKeyError(
                       d.decoderName, Head(UnknownKeys(d.decoders, value)))))
       ELSE objectStrictFields(d.decoders, d.decoderName, value, path, 1, <<>>)
  ELSE Done(err(primitiveError(value, d.decoderName)))

\* the loop of array reporting the position of the element counted from one
arrayItems_OneBasedIndex(d, decoderName, items, path, i, arr) ==
  IF ~(i < Len(items)) THEN Done(ok(List(arr)))
  ELSE
    LET result == Decode(d, items[i + 1], Append(path, ToString(i)))
    IN  IF result.r.kind = "Throw" THEN result
        ELSE IF isOk(result.r)
        THEN LET rest == arrayItems(d, decoderName, items, path, i + 1,
                                    Append(arr, result.r.value))
             IN  [r |-> rest.r, log |-> result.log \o rest.log]
        ELSE [r |-> err(arrayError(decoderName, i + 1, result.r.error)),
              log |-> result.log]

\* the loop of array over the elements, from index i (zero-based) on
arrayItems(d, decoderName, items, path, i, arr) ==
  IF ~(i < Len(items)) THEN Done(ok(List(arr)))
  ELSE
    LET result == Decode(d, items[i + 1], Append(path, ToString(i)))
    IN  IF result.r.kind = "Throw" THEN result
        ELSE IF isOk(result.r)
        THEN LET rest == arrayItems(d, decoderName, items, path, i + 1,
                                    Append(arr, result.r.value))
             IN  [r |-> rest.r, log |-> result.log \o rest.log]
        ELSE [r |-> err(arrayError(decoderName, i, result.r.error)),
              log |-> result.log]

arrayDecodeFn(d, value, path) ==
  IF value.t = "array"
  THEN arrayItems(d.decoder, d.decoderName, value.items, path, 0, <<>>)
  ELSE Done(err(primitiveError(value, "array")))

\* for (let i = 0; i < json.length; i++) of tuple
tupleItems(decoders, decoderName, items, path, i, arr) ==
  IF ~(i < Len(items)) THEN Done(ok(List(arr)))
  ELSE
    LET result == Decode(decoders[i + 1], items[i + 1], Append(path, ToString(i)))
    IN  IF result.r.kind = "Throw" THEN result
        ELSE IF isOk(result.r)
        THEN LET rest == tupleItems(decoders, decoderName, items, path, i + 1,
                                    Append(arr, result.r.value))
             IN  [r |-> rest.r, log |-> result.log \o rest.log]
        ELSE [r |-> err(arrayError(decoderName, i, result.r.error)),
              log |-> result.log]

tupleDecodeFn(d, value, path) ==
  IF value.t = "array"
  THEN IF Len(value.items) # Len(d.decoders)
       THEN Done(err(tupleLengthMismatchError(d.decoderName, value.items,
                                              d.decoders)))
       ELSE tupleItems(d.decoders, d.decoderName, value.items, path, 0, <<>>)
  ELSE Done(err(primitiveError(value, d.decoderName)))

\* Object.prototype.hasOwnProperty.call(json, key)
hasOwnProperty(value, key) == key \in Range(ForInKeys(value))

\* for (const key in json) of record
recordEntries(d, decoderName, value, keys, path, i, obj) ==
  IF i > Len(keys) THEN Done(ok(Obj(obj)))
  ELSE IF ~hasOwnProperty(value, keys[i])
  THEN recordEntries(d, decoderName, value, keys, path, i + 1, obj)
  ELSE
    LET result == Decode(d, Get(value, keys[i]), Append(path, keys[i]))
    IN  IF result.r.kind = "Throw" THEN result
        ELSE IF isOk(result.r)
        THEN LET rest == recordEntries(d, decoderName, value, keys, path, i + 1,
                                       Put(obj, keys[i], result.r.value))
             IN  [r |-> rest.r, log |-> result.log \o rest.log]
        ELSE [r |-> err(recordError(decoderName, keys[i], result.r.error)),
              log |-> result.log]

recordDecodeFn(d, value, path) ==
  IF IsNonNullObject(value)
  THEN recordEntries(d.decoder, d.decoderName, value, ForInKeys(value), path,
                     1, <<>>)
  ELSE Done(err(primitiveError(value, d.decoderName)))

\* fallback that lets the failure of the wrapped decoder through
fallbackDecodeFn_ReturnsErr(d, value, path) ==
  Decode(d.decoder, value, path)

fallbackDecodeFn(d, value, path) ==
  LET result == Decode(d.decoder, value, path)
  IN  IF result.r.kind = "Throw" THEN result
      ELSE IF isOk(result.r) THEN result
      ELSE [r |-> ok(d.defaultValue), log |-> result.log]

\* the loop of oneOf that goes on after a success and keeps the last one
oneOfTry_LastMatchWins(decoders, decoderName, value, path, i) ==
  IF ~(i < Len(decoders)) THEN Done(err(oneOfError(decoderName, value)))
  ELSE
    LET result == Decode(decoders[i + 1], value, Append(path, Pos(i)))
        rest == oneOfTry_LastMatchWins(decoders, decoderName, value, path, i + 1)
    IN  IF isOk(result.r) /\ ~isOk(rest.r)
        THEN [r |-> result.r, log |-> result.log \o rest.log]
        ELSE [r |-> rest.r, log |-> result.log \o rest.log]

\* for (let i = 0; i < decoders.length; i++) of oneOf
oneOfTry(decoders, decoderName, value, path, i) ==
  IF ~(i < Len(decoders)) THEN Done(err(oneOfError(decoderName, value)))
  ELSE
    LET result == Decode(decoders[i + 1], value, Append(path, Pos(i)))
    IN  IF result.r.kind = "Throw" THEN result
        ELSE IF isOk(result.r) THEN result
        ELSE LET rest == oneOfTry(decoders, decoderName, value, path, i + 1)
             IN  [r |-> rest.r, log |-> result.log \o rest.log]

oneOfDecodeFn(d, value, path) ==
  oneOfTry(d.decoders, d.decoderName, value, path, 0)

\* typeof value === 'object' && value !== null
\*   && Object.getPrototypeOf(value) === Object.prototype
isPlainObject(value) == value.t = "object"

RECURSIVE deepMerge(_, _)
RECURSIVE deepMergeKeys_Shallow(_, _, _, _, _)
RECURSIVE deepMergeKeys(_, _, _, _, _)

\* the loop of deepMerge that overrides a nested map instead of merging it
deepMergeKeys_Shallow(target, source, keys, i, result) ==
  IF i > Len(keys) THEN Obj(result)
  ELSE IF ~hasOwnProperty(source, keys[i])
  THEN deepMergeKeys_Shallow(target, source, keys, i + 1, result)
  ELSE deepMergeKeys_Shallow(target, source, keys, i + 1,
                             Put(result, keys[i], Get(source, keys[i])))

\* for (const key in source) of deepMerge
deepMergeKeys(target, source, keys, i, result) ==
  IF i > Len(keys) THEN Obj(result)
  ELSE IF ~hasOwnProperty(source, keys[i])
  THEN deepMergeKeys(target, source, keys, i + 1, result)
  ELSE
    LET sourceValue == Get(source, keys[i])
        targetValue == Get(target, keys[i])
    IN  deepMergeKeys(target, source, keys, i + 1,
                      Put(result, keys[i],
                          IF isPlainObject(sourceValue) /\ isPlainObject(targetValue)
                          THEN deepMerge(targetValue, sourceValue)
                          ELSE sourceValue))

\* deepMerge that starts from an empty map instead of a copy of target
deepMerge_FromEmpty(target, source) ==
  deepMergeKeys(target, source, ForInKeys(source), 1, <<>>)

\* const result = { ...target }, then the loop over the keys of source
deepMerge(target, source) ==
  deepMergeKeys(target, source, ForInKeys(source), 1, target.entries)

\* the loop of allOf that hands the output of a decoder to the next one for
\* lists too
allOfLoop_PipesLists(decoders, decoderName, value, path, i, lastJson) ==
  IF ~(i < Len(decoders)) THEN Done(ok(lastJson))
  ELSE
    LET result == Decode(decoders[i + 1], lastJson, Append(path, Pos(i)))
    IN  IF result.r.kind = "Throw" THEN result
        ELSE IF isOk(result.r)
        THEN LET rest == allOfLoop_PipesLists(decoders, decoderName, value, path,
                           i + 1,
                           IF isPlainObject(value)
                           THEN deepMerge(lastJson, result.r.value)
                           ELSE result.r.value)
             IN  [r |-> rest.r, log |-> result.log \o rest.log]
        ELSE [r |-> err(allOfError(decoderName, i, result.r.error)),
              log |-> result.log]

\* for (let i = 0; i < decoders.length; i++) of allOf; value is the input,
\* lastJson the accumulator
allOfLoop(decoders, decoderName, value, path, i, lastJson) ==
  IF ~(i < Len(decoders)) THEN Done(ok(lastJson))
  ELSE
    LET result == Decode(decoders[i + 1], lastJson, Append(path, Pos(i)))
    IN  IF result.r.kind = "Throw" THEN result
        ELSE IF isOk(result.r)
        THEN LET rest == allOfLoop(decoders, decoderName, value, path, i + 1,
                           IF isPlainObject(value)
                           THEN deepMerge(lastJson, result.r.value)
                           ELSE IF ~(value.t = "array") THEN result.r.value
                           ELSE lastJson)
             IN  [r |-> rest.r, log |-> result.log \o rest.log]
        ELSE [r |-> err(allOfError(decoderName, i, result.r.error)),
              log |-> result.log]

\* allOf that answers the input instead of the accumulator
allOfDecodeFn_ReturnsInput(d, value, path) ==
  LET run == allOfLoop(d.decoders, d.decoderName, value, path, 0, value)
  IN  IF run.r.kind = "Throw" \/ ~isOk(run.r) THEN run
      ELSE [r |-> ok(value), log |-> run.log]

allOfDecodeFn(d, value, path) ==
  allOfLoop(d.decoders, d.decoderName, value, path, 0, value)

\* Decoder.map
mapDecodeFn(d, value, path) ==
  LET result == Decode(d.decoder, value, path)
  IN  IF result.r.kind = "Throw" THEN result
      ELSE IF isOk(result.r)
      THEN [r |-> ok(ApplyMapFn(d.fn, result.r.value)), log |-> result.log]
      ELSE [r |-> err(result.r.error), log |-> result.log]

\* x === json for x a value of an enum object: a string or a number
StrictEquals(x, value) == x = value

\* Object.values(enumObj).find(x => x === json)
enumerationDecodeFn(d, value) ==
  LET values == ObjectValues(d.enumObj)
      found == {i \in 1..Len(values) : StrictEquals(values[i], value)}
      enumValue == IF found = {} THEN Undefined
                   ELSE values[CHOOSE i \in found : \A j \in found : i <= j]
  IN  IF enumValue # Undefined THEN ok(enumValue)
      ELSE err(enumValueError(d.decoderName, value))

literalDecodeFn(d, value) ==
  IF StrictEquals(value, d.value) THEN ok(d.value)
  ELSE err(exactlyError(value, d.value))

\* part instanceof Decoder
IsDecoderPart(part) == "k" \in DOMAIN part

\* the pattern without a mark for the decoders
template_OmitsDecoders(parts) ==
  IF parts = <<>> THEN ""
  ELSE (IF IsDecoderPart(Head(parts)) THEN "" ELSE StringOf(Head(parts)))
       \o template_OmitsDecoders(Tail(parts))

\* parts.map(p => (p instanceof Decoder ? '?' : p)).join('')
template(parts) ==
  IF parts = <<>> THEN ""
  ELSE (IF IsDecoderPart(Head(parts)) THEN "?" ELSE StringOf(Head(parts)))
       \o template(Tail(parts))

\* the captured substring decoded as the raw string only
decodePart_RawOnly(part, attempts, path) == Decode(part, Head(attempts), path)

\* let result = part.decode(value); if (!result.isOk()) result =
\* part.decode(parseInt(value)): attempts are the values to decode in turn,
\* the raw string and then the parsed integer
decodePart(part, attempts, path) ==
  LET result == Decode(part, Head(attempts), path)
  IN  IF result.r.kind = "Throw" \/ isOk(result.r) \/ Len(attempts) = 1 THEN result
      ELSE LET retry == decodePart(part, Tail(attempts), path)
           IN  [r |-> retry.r, log |-> result.log \o retry.log]

nextLiteralIndex(parts, index) ==
  LET found == {i \in 0..(Len(parts) - 1) :
                  /\ i > index
                  /\ ~IsDecoderPart(parts[i + 1])
                  /\ typeof(parts[i + 1]) = "string"}
  IN  IF found = {} THEN -1 ELSE CHOOSE i \in found : \A j \in found : i <= j

\* for (const part of parts) of templateLiteral; value is the input string,
\* index the position of the part, jsonIndex the cursor
templateParts(parts, value, path, index, jsonIndex) ==
  LET mismatch == Done(err(exactlyError(value, Str(template(parts)))))
  IN
  IF ~(index < Len(parts))
  THEN IF jsonIndex # Len(value.s) THEN mismatch ELSE Done(ok(value))
  ELSE
    LET part == parts[index + 1]
    IN  IF IsDecoderPart(part)
        THEN
          LET next == nextLiteralIndex(parts, index)
              endIndex == IF next = -1 THEN Len(value.s)
                          ELSE indexOf(value.s, StringOf(parts[next + 1]), jsonIndex)
          IN  IF endIndex = -1 THEN mismatch
              ELSE
                LET captured == substring(value.s, jsonIndex, endIndex)
                    result == decodePart(part, <<Str(captured), parseInt(captured)>>,
                                       Append(path, Pos(index)))
                    rest == templateParts(parts, value, path, index + 1, endIndex)
                IN  IF result.r.kind = "Throw" \/ ~isOk(result.r) THEN result
                    ELSE [r |-> rest.r, log |-> result.log \o rest.log]
        ELSE
          IF ~startsWith(value.s, StringOf(part), jsonIndex) THEN mismatch
          ELSE templateParts(parts, value, path, index + 1,
                             jsonIndex + Len(StringOf(part)))

templateLiteralDecodeFn(d, value, path) ==
  IF typeof(value) # "string"
  THEN Done(err(exactlyError(value, Str(template(d.parts)))))
  ELSE templateParts(d.parts, value, path, 0, 0)

undefinedDecodeFn(value) ==
  IF value = Undefined THEN ok(Undefined)
  ELSE err(undefinedError(value))

\* what building a lazy decoder calls: nothing, mkDecoder is kept in the
\* closure
lazyConstruction(mkDecoder) == <<>>

\* lazy whose function calls mkDecoder a second time
lazyDecodeFn_CallsThunkTwice(d, value, path) ==
  LET inner == Decode(ApplyThunk(d.mkDecoder), value, path)
  IN  [r |-> inner.r,
       log |-> <<ThunkCall(path, d.mkDecoder), ThunkCall(path, d.mkDecoder)>>
                 \o inner.log]

\* json => mkDecoder().decode(json)
lazyDecodeFn(d, value, path) ==
  LET inner == Decode(ApplyThunk(d.mkDecoder), value, path)
  IN  [r |-> inner.r, log |-> <<ThunkCall(path, d.mkDecoder)>> \o inner.log]

\* flatMap that hands the decoded value, not the input, to the next decoder
flatMapDecodeFn_DecodesValue(d, value, path) ==
  LET result == Decode(d.decoder, value, path)
  IN  IF result.r.kind = "Throw" THEN result
      ELSE IF isOk(result.r)
      THEN LET next == Decode(ApplyFn(d.fn, result.r.value), result.r.value, path)
           IN  [r |-> next.r,
                log |-> result.log \o <<FnCall(path, d.fn, result.r.value)>>
                          \o next.log]
      ELSE [r |-> err(result.r.error), log |-> result.log]

flatMapDecodeFn(d, value, path) ==
  LET result == Decode(d.decoder, value, path)
  IN  IF result.r.kind = "Throw" THEN result
      ELSE IF isOk(result.r)
      THEN LET next == Decode(ApplyFn(d.fn, result.r.value), value, path)
           IN  [r |-> next.r,
                log |-> result.log \o <<FnCall(path, d.fn, result.r.value)>>
                          \o next.log]
      ELSE [r |-> err(result.r.error), log |-> result.log]

\* Decoder.decode: runs the wrapped function
Decode(d, value, path) ==
  LET out ==
        CASE d.k = "string" -> Done(stringDecodeFn(value))
          [] d.k = "number" -> Done(numberDecodeFn(value))
          [] d.k = "boolean" -> Done(booleanDecodeFn(value))
          [] d.k = "succeed" -> Done(succeedDecodeFn(value))
          [] d.k = "fail" -> Done(failDecodeFn(d, value))
          [] d.k = "optional" -> optionalDecodeFn(d, value, path)
          [] d.k = "object" -> objectDecodeFn(d, value, path)
          [] d.k = "objectStrict" -> objectStrictDecodeFn(d, value, path)
          [] d.k = "array" -> arrayDecodeFn(d, value, path)
          [] d.k = "flatMap" -> flatMapDecodeFn(d, value, path)
          [] d.k = "tuple" -> tupleDecodeFn(d, value, path)
          [] d.k = "record" -> recordDecodeFn(d, value, path)
          [] d.k = "fallback" -> fallbackDecodeFn(d, value, path)
          [] d.k = "oneOf" -> oneOfDecodeFn(d, value, path)
          [] d.k = "allOf" -> allOfDecodeFn(d, value, path)
          [] d.k = "map" -> mapDecodeFn(d, value, path)
          [] d.k = "undefined" -> Done(undefinedDecodeFn(value))
          [] d.k = "lazy" -> lazyDecodeFn(d, value, path)
          [] d.k = "enumeration" -> Done(enumerationDecodeFn(d, value))
          [] d.k = "literal" -> Done(literalDecodeFn(d, value))
          [] d.k = "templateLiteral" -> templateLiteralDecodeFn(d, value, path)
  IN  [r |-> out.r, log |-> <<Call(path, d, value)>> \o out.log]

(***************************************************************************)
(* The entry points of Decoder besides decode.                             *)
(***************************************************************************)
\* parse that returns undefined where it has to throw
parse_ReturnsOnErr(d, value) ==
  LET result == Decode(d, value, <<>>).r
  IN  IF result.kind = "Throw" THEN [status |-> "thrown", payload |-> result.exc]
      ELSE IF isOk(result) THEN [status |-> "returned", payload |-> result.value]
      ELSE [status |-> "returned", payload |-> Undefined]

\* parse: the decoded value, or throws the error
parse(d, value) ==
  LET result == Decode(d, value, <<>>).r
  IN  IF result.kind = "Throw" THEN [status |-> "thrown", payload |-> result.exc]
      ELSE IF isOk(result) THEN [status |-> "returned", payload |-> result.value]
      ELSE [status |-> "thrown", payload |-> result.error]

\* '~standard'.validate
validate(d, value) ==
  LET result == Decode(d, value, <<>>).r
  IN  IF result.kind = "Throw" THEN [status |-> "thrown", payload |-> result.exc]
      ELSE IF isOk(result)
      THEN [status |-> "returned", payload |-> [value |-> result.value]]
      ELSE [status |-> "returned",
            payload |-> [issues |-> <<[message |-> result.error]>>]]

\* decodePromise: the executor runs at once and settles the promise; an
\* exception inside an executor rejects the promise
decodePromise(d, value) ==
  LET result == Decode(d, value, <<>>).r
  IN  IF result.kind = "Throw" THEN [status |-> "rejected", payload |-> result.exc]
      ELSE IF isOk(result) THEN [status |-> "fulfilled", payload |-> result.value]
      ELSE [status |-> "rejected", payload |-> result.error]

(***************************************************************************)
(* The decoders and the inputs explored.                                   *)
(***************************************************************************)
Leaves == {Undefined, Null, Str("x"), Num(1), Num(18), Bool(TRUE)}

ItemValues == {Undefined, Str("x"), Num(1)}

KeyNames == {"a", "b", "k"}

SeqsUpTo(S, n) == UNION {[1..m -> S] : m \in 0..n}

\* key sequences without a repeated key
KeySeqs == {ks \in SeqsUpTo(KeyNames, MaxKeys) :
              \A i, j \in 1..Len(ks) : i # j => ks[i] # ks[j]}

Lists == {List(items) : items \in SeqsUpTo(ItemValues, MaxLen)}

Objs == {Obj([i \in 1..Len(ks) |-> Entry(ks[i], vs[i])]) :
           <<ks, vs>> \in {p \in KeySeqs \X SeqsUpTo(ItemValues, MaxKeys) :
                             Len(p[1]) = Len(p[2])}}

Square == Obj(<<Entry("type", Str("square")), Entry("side", Num(1))>>)

Nested == {Square,
           Obj(<<Entry("type", Str("square"))>>),
           Obj(<<Entry("type", Str("circle")), Entry("side", Num(1))>>),
           List(<<Obj(<<Entry("a", Str("x"))>>), Obj(<<Entry("a", Num(1))>>)>>),
           List(<<Obj(<<Entry("a", Str("x"))>>), Obj(<<Entry("b", Num(1))>>),
                  Num(1)>>),
           List(<<List(<<Num(1)>>), List(<<Str("x")>>)>>),
           List(<<Num(1), Str("x"), List(<<Num(1)>>)>>),
           List(<<Num(1), List(<<Num(1)>>)>>),
           Obj(<<Entry("a", Obj(<<Entry("b", Num(1)), Entry("k", Str("x"))>>))>>),
           Obj(<<Entry("a", List(<<Str("x")>>)), Entry("b", Str("x"))>>),
           List(<<Obj(<<Entry("a", Num(1))>>)>>)}

Leaf == Obj(<<Entry("value", Str("x"))>>)

Parent(children) == Obj(<<Entry("value", Str("x")), Entry("children", children)>>)

\* the trees of at most d levels of children, with at most one child per
\* node, with and without the value of a node
RECURSIVE TreeNodes(_)
TreeNodes(d) ==
  IF d = 0 THEN {Leaf, Obj(<<>>)}
  ELSE LET below == TreeNodes(d - 1)
           kids == {List(<<>>)} \cup {List(<<c>>) : c \in below}
       IN  below \cup {Parent(k) : k \in kids}
                 \cup {Obj(<<Entry("children", k)>>) : k \in kids}

\* trees with several children per node, and trees that are not well formed
WideTrees ==
  {Parent(List(<<Leaf, Parent(List(<<Leaf, Leaf>>))>>)),
   Parent(List(<<Leaf, Parent(List(<<Leaf, Obj(<<>>)>>))>>)),
   Parent(List(<<Parent(List(<<>>)), Obj(<<Entry("children", List(<<>>))>>)>>)),
   Parent(List(<<Leaf, Num(1)>>)),
   Parent(Null),
   Parent(Undefined),
   Parent(Leaf),
   Obj(<<Entry("value", Num(1))>>)}

\* values and names of the members of the enums, and values of no member
EnumInputs ==
  {Num(0), Num(2), Num(3), Num(-3), Str("A"), Str("Z"), Str("foo"), Str("red"),
   Str("Red"), Str("green"), Str("0")}

\* strings for the patterns
TemplateInputs ==
  {Str(s) : s \in {"", "hi", "bye", "hix", "prefix.x.suffix", "prefix.x",
                   "prefix..suffix.suffix", "100px", "100rem", "99px", "1px",
                   "abcpx", "12abcpx", "px", "1.5px", "-5px", "0x1fpx",
                   "100.px", "100.rem", "100.em", "a1px", "a1", "11px", "#5",
                   "#", "a.b.c", "a.", "truepx", "pxpx"}}

Inputs == Leaves \cup Lists \cup Objs \cup Nested \cup TreeNodes(TreeDepth)
            \cup WideTrees \cup EnumInputs \cup TemplateInputs

FieldDecoders == {string, number, optional(string)}

FieldsOf(key) ==
  {Field(key, d) : d \in FieldDecoders}
    \cup {FieldFrom(key, "k", d) : d \in FieldDecoders}

FieldSeqs ==
  {<<f>> : f \in FieldsOf("a") \cup FieldsOf("b")}
    \cup {<<f, g>> : <<f, g>> \in FieldsOf("a") \X FieldsOf("b")}
    \cup {<<f, g>> : <<f, g>> \in FieldsOf("b") \X FieldsOf("a")}

\* object({a: number()}, 'a').map(obj => ({a: obj.a + 1}))
PlusOne == map(object(<<Field("a", number)>>, "a"), "incA")

AllOfDecoders ==
  {<<>>, <<PlusOne, PlusOne>>,
   <<array(PlusOne, "{a}[]"), array(PlusOne, "{a}[]")>>,
   <<object(<<Field("a", string)>>, "{a: string}"),
     object(<<Field("b", string)>>, "{b: string}")>>,
   <<object(<<Field("a", object(<<Field("b", number)>>, "Inner"))>>, "Outer"),
     succeed>>,
   <<object(<<Field("a", array(fallback(Num(0), number), "items"))>>, "Outer"),
     object(<<Field("b", string)>>, "{b: string}")>>,
   <<array(fallback(Num(0), number), "items"), array(string, "items")>>,
   <<fallback(Num(0), number), number>>,
   <<fallback(Str("none"), number), succeed>>,
   <<string, number>>, <<succeed, fail("boom"), string>>,
   <<fail("boom"), fail("bang")>>,
   <<object(<<Field("a", string)>>, "{a: string}"),
     object(<<Field("a", string)>>, "{a: string}")>>}

\* 'px' | 'rem'
Unit == oneOf(<<literal(Str("px")), literal(Str("rem"))>>, "px | rem")

\* the patterns of the tests, and patterns with a number literal after a
\* decoder, a decoder at the end, two decoders around a literal, and a
\* decoder that takes neither a string nor a number
Templates ==
  {<<>>, <<Str("hi")>>, <<Str("prefix."), string, Str(".suffix")>>,
   <<Num(100), Str("px")>>, <<number, Str("px")>>, <<number, Str("."), Unit>>,
   <<string, Num(1), Str("px")>>, <<Str("#"), number>>,
   <<string, Str("."), string>>, <<boolean, Str("px")>>,
   <<literal(Num(1)), Str("px")>>, <<string, Num(1)>>}

TupleDecoders ==
  {<<>>, <<number>>, <<string, number>>, <<number, number>>,
   <<number, array(number, "number[]")>>, <<optional(string), string>>}

OneOfDecoders ==
  {<<>>, <<string>>, <<string, number>>, <<number, string>>,
   <<fail("boom"), fail("bang")>>,
   <<number, succeed, fallback(Num(0), number)>>,
   <<fallback(Num(0), number), succeed>>,
   <<array(number, "number[]"), array(string, "string[]")>>}

User == object(<<Field("a", string)>>, "User")

Decoders ==
  {string, number, boolean, succeed, fail("boom"), optional(string),
   optional(fail("boom")), optional(succeed), optional(User),
   optional(array(number, "number[]"))}
    \cup {object(fs, "User") : fs \in FieldSeqs}
    \cup {objectStrict(fs, "User") : fs \in FieldSeqs}
    \cup {object(<<Field("a", User), Field("b", number)>>, "Payment"),
          objectStrict(<<Field("a", fail("boom")), Field("b", string)>>, "User")}
    \cup {array(d, "items") :
            d \in {string, number, optional(number), User,
                   array(number, "number[]")}}
    \cup {flatMap(shapeDecoder, "shapeFn"), flatMap(number, "adultFn"),
          flatMap(succeed, "shapeFn"),
          array(flatMap(number, "adultFn"), "ages")}
    \cup {tuple(ds, "pair") : ds \in TupleDecoders}
    \cup {record(d, "Dict") : d \in {string, number, optional(number), User}}
    \cup {fallback(Num(0), d) :
            d \in {number, string, fail("boom"), User, array(number, "number[]")}}
    \cup {fallback(Str("none"), string),
          array(fallback(Num(0), number), "items"),
          object(<<Field("a", fallback(Num(0), number))>>, "User")}
    \cup {oneOf(ds, "string | number") : ds \in OneOfDecoders}
    \cup {allOf(ds, "All") : ds \in AllOfDecoders}
    \cup {PlusOne, map(succeed, "emptyList"), undefined_,
          map(undefined_, "emptyList")}
    \cup {lazy("stringThunk"), lazy("squareThunk"), lazy("treeThunk"),
          array(lazy("stringThunk"), "items"), treeDecoder}
    \cup {enumeration(IntEnum, "IntEnum"),
          enumeration(OddlyOrderedIntEnum, "OddlyOrderedIntEnum"),
          enumeration(HeterogeneousEnum, "HeterogeneousEnum"),
          enumeration(Color, "Color")}
    \cup {fail(""), array(fail(""), "items")}
    \cup {literal(Str("px")), literal(Num(1))}
    \cup {templateLiteral(parts) : parts \in Templates}

(***************************************************************************)
(* The state: a constructed decoder and, while a call of one of its entry   *)
(* points has returned and its caller has not yet taken the outcome, the   *)
(* value handed to the call, what it gave back and the calls it made.      *)
(* history holds the decode calls of the callers that share the decoder,   *)
(* kept by the specification of shared use only.                           *)
(***************************************************************************)
Init ==
  /\ decoder \in Decoders
  /\ json = Undefined
  /\ outcome = [op |-> "none"]
  /\ log = IF decoder.k = "lazy" THEN lazyConstruction(decoder.mkDecoder) ELSE <<>>
  /\ history = <<>>

DecodeCall(value) ==
  /\ outcome.op = "none"
  /\ json' = value
  /\ outcome' = [op |-> "decode", result |-> Decode(decoder, value, <<>>).r]
  /\ log' = Decode(decoder, value, <<>>).log
  /\ UNCHANGED <<decoder, history>>

ParseCall(value) ==
  /\ outcome.op = "none"
  /\ json' = value
  /\ outcome' = [op |-> "parse"] @@ parse(decoder, value)
  /\ log' = Decode(decoder, value, <<>>).log
  /\ UNCHANGED <<decoder, history>>

ValidateCall(value) ==
  /\ outcome.op = "none"
  /\ json' = value
  /\ outcome' = [op |-> "validate"] @@ validate(decoder, value)
  /\ log' = Decode(decoder, value, <<>>).log
  /\ UNCHANGED <<decoder, history>>

DecodePromiseCall(value) ==
  /\ outcome.op = "none"
  /\ json' = value
  /\ outcome' = [op |-> "decodePromise"] @@ decodePromise(decoder, value)
  /\ log' = Decode(decoder, value, <<>>).log
  /\ UNCHANGED <<decoder, history>>

\* the caller takes what the call gave back; the decoder keeps no trace of it
Return ==
  /\ outcome.op # "none"
  /\ json' = Undefined
  /\ outcome' = [op |-> "none"]
  /\ log' = <<>>
  /\ UNCHANGED <<decoder, history>>

Next ==
  \/ \E value \in Inputs : DecodeCall(value)
  \/ \E value \in Inputs : ParseCall(value)
  \/ \E value \in Inputs : ValidateCall(value)
  \/ \E value \in Inputs : DecodePromiseCall(value)
  \/ Return

Spec == Init /\ [][Next]_vars

(***************************************************************************)
(* Shared use: several callers hold the same decoder and call decode on it *)
(* in any order.  decode is synchronous, so a call runs to its end before  *)
(* the next one starts; history keeps who called, with what, and what came *)
(* back.                                                                   *)
(***************************************************************************)
Callers == {"A", "B"}

SharedDecoders ==
  {number, User, treeDecoder, lazy("squareThunk"),
   allOf(<<PlusOne, PlusOne>>, "All"), oneOf(<<string, number>>, "string | number"),
   fallback(Num(0), number), record(number, "Dict"),
   enumeration(IntEnum, "IntEnum"), array(flatMap(number, "adultFn"), "ages")}

SharedInputs ==
  {Undefined, Str("x"), Num(1), List(<<Num(1), Str("x")>>),
   Obj(<<Entry("a", Num(1))>>), Parent(List(<<Leaf, Obj(<<>>)>>))}

InitShared ==
  /\ decoder \in SharedDecoders
  /\ json = Undefined
  /\ outcome = [op |-> "none"]
  /\ log = <<>>
  /\ history = <<>>

\* a decode whose function reads the input of the call before, kept in a
\* variable of the closure
SharedDecodeCall_ReadsLastInput(caller, value) ==
  LET given == IF history = <<>> THEN value ELSE history[Len(history)].json
  IN  /\ Len(history) < MaxCalls
      /\ json' = value
      /\ outcome' = [op |-> "decode", result |-> Decode(decoder, given, <<>>).r]
      /\ log' = Decode(decoder, given, <<>>).log
      /\ history' = Append(history, [caller |-> caller, json |-> value,
                                 result |-> Decode(decoder, given, <<>>).r])
      /\ UNCHANGED decoder

\* decoder.decode(value) by one of the callers
SharedDecodeCall(caller, value) ==
  /\ Len(history) < MaxCalls
  /\ json' = value
  /\ outcome' = [op |-> "decode", result |-> Decode(decoder, value, <<>>).r]
  /\ log' = Decode(decoder, value, <<>>).log
  /\ history' = Append(history, [caller |-> caller, json |-> value,
                             result |-> Decode(decoder, value, <<>>).r])
  /\ UNCHANGED decoder

NextShared ==
  \E caller \in Callers : \E value \in SharedInputs : SharedDecodeCall(caller, value)

SpecShared == InitShared /\ [][NextShared]_vars

(***************************************************************************)
(* Helpers of the properties.                                              *)
(***************************************************************************)
Min(S) == CHOOSE x \in S : \A y \in S : x <= y

\* the decoder calls in the log
DecoderCalls == SelectSeq(log, LAMBDA e : "k" \in DOMAIN e)

\* the calls of the functions handed to flatMap by the decoder under test
FnCalls == SelectSeq(log, LAMBDA e : "fn" \in DOMAIN e /\ e.path = <<>>)

\* the calls, in the order they were made, of the decoder d of the child at
\* the path element p of the decoder under test
ChildCalls(p, d) ==
  SelectSeq(log, LAMBDA e : "k" \in DOMAIN e /\ e.path = <<p>> /\ e.k = d.k)

\* the calls made at or below the path element p
CallsBelow(p) ==
  SelectSeq(log, LAMBDA e : Len(e.path) >= 1 /\ e.path[1] = p)

\* the path elements of the children in the order they were first called
RECURSIVE FirstSeen(_, _)
FirstSeen(calls, seen) ==
  IF calls = <<>> THEN <<>>
  ELSE IF Len(Head(calls).path) = 0 \/ Head(calls).path[1] \in seen
       THEN FirstSeen(Tail(calls), seen)
       ELSE <<Head(calls).path[1]>>
              \o FirstSeen(Tail(calls), seen \cup {Head(calls).path[1]})

ChildOrder == FirstSeen(log, {})

\* the key a declared field is read from
SourceKey(decoderObject) ==
  IF IsDecoder(decoderObject) THEN decoderObject.key ELSE decoderObject.fromKey

\* the Result of the decoder of the declared field i on its source value
FieldResult(i) ==
  Decode(decoder.decoders[i].decoder,
         Get(json, SourceKey(decoder.decoders[i])), <<>>).r

\* the input keys the declared fields are read from
AllowedInputKeys ==
  {SourceKey(decoder.decoders[i]) : i \in 1..Len(decoder.decoders)}

\* the keys of the input
InputKeys == Range(ForInKeys(json))

DeclaredKeys == {decoder.decoders[i].key : i \in 1..Len(decoder.decoders)}

C2_TerminalsAgreeWithDecode ==
  LET r == Decode(decoder, json, <<>>).r
  IN  /\ outcome.op = "parse" =>
           \/ r.kind = "Ok" /\ outcome.status = "returned"
                /\ outcome.payload = r.value
           \/ r.kind = "Err" /\ outcome.status = "thrown"
                /\ outcome.payload = r.error
      /\ outcome.op = "decodePromise" =>
           \/ r.kind = "Ok" /\ outcome.status = "fulfilled"
                /\ outcome.payload = r.value
           \/ r.kind = "Err" /\ outcome.status = "rejected"
                /\ outcome.payload = r.error
      /\ outcome.op = "validate" =>
           \/ r.kind = "Ok" /\ outcome.status = "returned"
                /\ DOMAIN outcome.payload = {"value"}
                /\ outcome.payload.value = r.value
           \/ r.kind = "Err" /\ outcome.status = "returned"
                /\ DOMAIN outcome.payload = {"issues"}
                /\ Len(outcome.payload.issues) = 1
                /\ outcome.payload.issues[1] = [message |-> r.error]

\* parse threw the message of a failed decode
C2_Witness ==
  /\ outcome.op = "parse"
  /\ decoder = string
  /\ json = Num(1)
  /\ outcome.status = "thrown"
  /\ outcome.payload = "1 is not a valid string"

(***************************************************************************)
(* C3  d.flatMap(fn).decode(x): on d.decode(x) = Ok(v) the result is       *)
(* fn(v).decode(x), the chosen decoder applied to the input x and not to   *)
(* v; on Err(e) the result is Err(e) and fn is not called.                 *)
(***************************************************************************)
C3_FlatMapDecodesTheInput ==
  (outcome.op = "decode" /\ decoder.k = "flatMap") =>
    LET first == Decode(decoder.decoder, json, <<>>).r
    IN  IF first.kind = "Ok"
        THEN /\ outcome.result
                  = Decode(ApplyFn(decoder.fn, first.value), json, <<>>).r
             /\ FnCalls = <<FnCall(<<>>, decoder.fn, first.value)>>
        ELSE /\ outcome.result = err(first.error)
             /\ FnCalls = <<>>

\* the chosen decoder accepts the input and would reject the value of d
C3_Witness ==
  /\ outcome.op = "decode"
  /\ decoder = flatMap(shapeDecoder, "shapeFn")
  /\ json = Square
  /\ outcome.result = ok(Square)
  /\ Decode(shapeDecoder, json, <<>>).r.value # json
  /\ Decode(squareDecoder, Decode(shapeDecoder, json, <<>>).r.value, <<>>).r.kind
       = "Err"

(***************************************************************************)
(* C4  A successful object decode gives a map whose keys are exactly the   *)
(* declared field names: no other key of the input is in it, every         *)
(* declared field is in it (holding undefined when its decoder accepted an *)
(* absent value), and each field holds the output of its own decoder.      *)
(***************************************************************************)
C4_ObjectProjection ==
  (outcome.op = "decode" /\ decoder.k = "object" /\ isOk(outcome.result)) =>
    LET v == outcome.result.value
    IN  /\ v.t = "object"
        /\ Range(ForInKeys(v)) = DeclaredKeys
        /\ Len(v.entries) = Cardinality(DeclaredKeys)
        /\ \A i \in 1..Len(decoder.decoders) :
             /\ isOk(FieldResult(i))
             /\ Get(v, decoder.decoders[i].key) = FieldResult(i).value

\* the input has an undeclared key and lacks the declared one
C4_Witness ==
  /\ outcome.op = "decode"
  /\ decoder = object(<<Field("a", optional(string))>>, "User")
  /\ json = Obj(<<Entry("b", Str("x"))>>)
  /\ outcome.result = ok(Obj(<<Entry("a", Undefined)>>))

(***************************************************************************)
(* C5  object reads a declared field from input[fromKey] when the field    *)
(* has a fromKey and from input[field name] otherwise; at the first        *)
(* declared field, in declaration order, whose decoder fails, it returns   *)
(* the object-field error with the decoder name, the declared field name   *)
(* and the child's message, and the decoders of later fields are not run.  *)
(***************************************************************************)
C5_ObjectFirstFailingField ==
  (outcome.op = "decode" /\ decoder.k = "object" /\ IsNonNullObject(json)) =>
    LET fs == decoder.decoders
        failing == {i \in 1..Len(fs) : ~isOk(FieldResult(i))}
        last == IF failing = {} THEN Len(fs) ELSE Min(failing)
    IN  /\ failing # {} =>
             outcome.result
               = err(objectError(decoder.decoderName, fs[last].key,
                                 FieldResult(last).error))
        /\ ChildOrder = [i \in 1..last |-> fs[i].key]
        /\ \A i \in 1..Len(fs) :
             IF i <= last
             THEN /\ Len(ChildCalls(fs[i].key, fs[i].decoder)) = 1
                  /\ ChildCalls(fs[i].key, fs[i].decoder)[1].json
                       = Get(json, SourceKey(fs[i]))
             ELSE CallsBelow(fs[i].key) = <<>>

\* two fields fail, the first one read from its fromKey: the error names the
\* declared field and the second field is not decoded
C5_Witness ==
  /\ outcome.op = "decode"
  /\ decoder = object(<<FieldFrom("b", "k", number), Field("a", string)>>, "User")
  /\ json = Obj(<<Entry("a", Num(1)), Entry("k", Str("x"))>>)
  /\ outcome.result
       = err("<User> decoder failed at key \"b\" with error: \"x\" is not a valid number")
  /\ CallsBelow("a") = <<>>

(***************************************************************************)
(* C6  object fails with the primitive-type error tagged with the decoder  *)
(* name, without running a field decoder, on every input that is not a     *)
(* non-null map: null, undefined, strings, numbers, booleans and lists.    *)
(***************************************************************************)
C6_ObjectRejectsNonMaps ==
  (outcome.op = "decode" /\ decoder.k = "object" /\ json.t # "object") =>
    /\ outcome.result = err(primitiveError(json, decoder.decoderName))
    /\ Len(DecoderCalls) = 1

(***************************************************************************)
(* C7  objectStrict checks the keys of the input before it decodes a       *)
(* field: an input with a key outside the allowed key set fails with the   *)
(* unknown-key error naming such a key and the decoder, and no field       *)
(* decoder is run, also when a declared field would fail its decoder.      *)
(***************************************************************************)
C7_StrictChecksKeysFirst ==
  (/\ outcome.op = "decode"
   /\ decoder.k = "objectStrict"
   /\ IsNonNullObject(json)
   /\ InputKeys \ AllowedInputKeys # {}) =>
    /\ \E key \in InputKeys \ AllowedInputKeys :
         outcome.result
           = err(objectStrictUnknownKeyError(decoder.decoderName, key))
    /\ Len(DecoderCalls) = 1

\* an unknown key next to a declared field whose value fails its decoder
C7_Witness ==
  /\ outcome.op = "decode"
  /\ decoder = objectStrict(<<Field("a", string)>>, "User")
  /\ json = Obj(<<Entry("a", Num(1)), Entry("b", Str("x"))>>)
  /\ ~isOk(FieldResult(1))
  /\ outcome.result
       = err("Unknown key \"b\" found while processing strict <User> decoder")

(***************************************************************************)
(* C8  For a field of objectStrict declared as {fromKey: k, decoder}, the  *)
(* allowed input key is k and not the declared field name: a map holding k *)
(* and no key outside the allowed set passes the unknown-key check and the *)
(* field is decoded from input[k]; a map holding the declared field name,  *)
(* which is not allowed, fails with the unknown-key error.                 *)
(***************************************************************************)
IsUnknownKeyError(r) ==
  /\ r.kind = "Err"
  /\ \E key \in InputKeys :
       r.error = objectStrictUnknownKeyError(decoder.decoderName, key)

C8_StrictAllowsFromKey ==
  (outcome.op = "decode" /\ decoder.k = "objectStrict" /\ json.t = "object") =>
    \A i \in 1..Len(decoder.decoders) :
      LET f == decoder.decoders[i]
      IN  ~IsDecoder(f) =>
            /\ (f.key \in InputKeys /\ f.key \notin AllowedInputKeys) =>
                 IsUnknownKeyError(outcome.result)
            /\ (f.fromKey \in InputKeys /\ InputKeys \subseteq AllowedInputKeys) =>
                 /\ ~IsUnknownKeyError(outcome.result)
                 /\ \A n \in 1..Len(ChildCalls(f.key, f.decoder)) :
                      ChildCalls(f.key, f.decoder)[n].json = Get(json, f.fromKey)
                 /\ isOk(outcome.result) =>
                      Get(outcome.result.value, f.key) = FieldResult(i).value

\* the input holds the fromKey and the field is decoded from it
C8_Witness ==
  /\ outcome.op = "decode"
  /\ decoder = objectStrict(<<FieldFrom("a", "k", string)>>, "User")
  /\ json = Obj(<<Entry("k", Str("x"))>>)
  /\ outcome.result = ok(Obj(<<Entry("a", Str("x"))>>))

ItemResult(i) == Decode(decoder.decoder, json.items[i], <<>>).r

C10_ArrayInIndexOrder ==
  (outcome.op = "decode" /\ decoder.k = "array") =>
    IF json.t = "array"
    THEN LET n == Len(json.items)
             failing == {i \in 1..n : ~isOk(ItemResult(i))}
             last == IF failing = {} THEN n ELSE Min(failing)
         IN  /\ IF failing # {}
                THEN outcome.result
                       = err(arrayError(decoder.decoderName, last - 1,
                                        ItemResult(last).error))
                ELSE /\ isOk(outcome.result)
                     /\ outcome.result.value.t = "array"
                     /\ Len(outcome.result.value.items) = n
                     /\ \A i \in 1..n :
                          outcome.result.value.items[i] = ItemResult(i).value
             /\ ChildOrder = [i \in 1..last |-> ToString(i - 1)]
             /\ \A i \in 1..n :
                  IF i <= last
                  THEN /\ Len(ChildCalls(ToString(i - 1), decoder.decoder)) = 1
                       /\ ChildCalls(ToString(i - 1), decoder.decoder)[1].json
                            = json.items[i]
                  ELSE CallsBelow(ToString(i - 1)) = <<>>
    ELSE /\ outcome.result = err(primitiveError(json, "array"))
         /\ Len(DecoderCalls) = 1

\* the second element fails: the error carries index 1 and the element's
\* message
C10_Witness ==
  /\ outcome.op = "decode"
  /\ decoder = array(number, "items")
  /\ json = List(<<Num(1), Str("x")>>)
  /\ outcome.result
       = err("<items> decoder failed at index \"1\" with error: \"x\" is not a valid number")

(***************************************************************************)
(* C11 tuple on a list whose length differs from the number of decoders    *)
(* fails with the length-mismatch error that reports the length of the     *)
(* list and then the number of decoders, and runs no element decoder; on a *)
(* list of the same length element i is decoded with decoders[i], in index *)
(* order, and the error is the index error of the first failing position.  *)
(***************************************************************************)
TupleResult(i) == Decode(decoder.decoders[i], json.items[i], <<>>).r

C11_TupleLengthThenPositions ==
  (outcome.op = "decode" /\ decoder.k = "tuple" /\ json.t = "array") =>
    LET n == Len(json.items)
    IN  IF n # Len(decoder.decoders)
        THEN /\ outcome.result
                  = err("<" \o decoder.decoderName
                        \o "> tuple decoder failed because it received a tuple of length "
                        \o ToString(n) \o ", but "
                        \o ToString(Len(decoder.decoders)) \o " decoders.")
             /\ Len(DecoderCalls) = 1
        ELSE LET failing == {i \in 1..n : ~isOk(TupleResult(i))}
                 last == IF failing = {} THEN n ELSE Min(failing)
             IN  /\ IF failing # {}
                    THEN outcome.result
                           = err(arrayError(decoder.decoderName, last - 1,
                                            TupleResult(last).error))
                    ELSE outcome.result
                           = ok(List([i \in 1..n |-> TupleResult(i).value]))
                 /\ ChildOrder = [i \in 1..last |-> ToString(i - 1)]
                 /\ \A i \in 1..n :
                      IF i <= last
                      THEN /\ Len(ChildCalls(ToString(i - 1), decoder.decoders[i])) = 1
                           /\ ChildCalls(ToString(i - 1), decoder.decoders[i])[1].json
                                = json.items[i]
                      ELSE CallsBelow(ToString(i - 1)) = <<>>

\* a list of three for two decoders, whose second element would fail too
C11_Witness ==
  /\ outcome.op = "decode"
  /\ decoder = tuple(<<number, array(number, "number[]")>>, "pair")
  /\ json = List(<<Num(1), Str("x"), List(<<Num(1)>>)>>)
  /\ outcome.result
       = err("<pair> tuple decoder failed because it received a tuple of length 3, but 2 decoders.")
  /\ Len(log) = 1

\* equal lengths, the second position fails
C11_WitnessPosition ==
  /\ outcome.op = "decode"
  /\ decoder = tuple(<<string, number>>, "pair")
  /\ json = List(<<Str("x"), Str("x")>>)
  /\ outcome.result
       = err("<pair> decoder failed at index \"1\" with error: \"x\" is not a valid number")

(***************************************************************************)
(* C12 record on a map decodes the value under every own key: when all     *)
(* decode, the result is Ok of a map with the keys of the input and, under *)
(* each key, the decoded value of that key; otherwise it is the record-key *)
(* error naming the first offending key and the message of its value.  An  *)
(* input that is null or not a map fails with the primitive-type error.    *)
(***************************************************************************)
EntryResult(i) == Decode(decoder.decoder, json.entries[i].value, <<>>).r

RecordOnMap ==
  LET n == Len(json.entries)
      failing == {i \in 1..n : ~isOk(EntryResult(i))}
  IN  IF failing # {}
      THEN outcome.result
             = err(recordError(decoder.decoderName, json.entries[Min(failing)].key,
                               EntryResult(Min(failing)).error))
      ELSE /\ isOk(outcome.result)
           /\ outcome.result.value.t = "object"
           /\ Range(ForInKeys(outcome.result.value)) = InputKeys
           /\ Len(outcome.result.value.entries) = n
           /\ \A i \in 1..n :
                Get(outcome.result.value, json.entries[i].key) = EntryResult(i).value

C12_RecordOnMapsOnly ==
  (outcome.op = "decode" /\ decoder.k = "record") =>
    IF json.t = "object" THEN RecordOnMap
    ELSE /\ outcome.result = err(primitiveError(json, decoder.decoderName))
         /\ Len(DecoderCalls) = 1

\* what holds of record on maps and on the inputs that are not objects to typeof
C12_RecordOnMapsAndPrimitives ==
  (outcome.op = "decode" /\ decoder.k = "record" /\ json.t # "array") =>
    IF json.t = "object" THEN RecordOnMap
    ELSE /\ outcome.result = err(primitiveError(json, decoder.decoderName))
         /\ Len(DecoderCalls) = 1

\* a list is decoded as a map of its indices
C12_ListAccepted ==
  /\ outcome.op = "decode"
  /\ decoder = record(number, "Dict")
  /\ json = List(<<Num(1), Num(1)>>)
  /\ outcome.result = ok(Obj(<<Entry("0", Num(1)), Entry("1", Num(1))>>))

(***************************************************************************)
(* C13 optional(d) on undefined is Ok(undefined) and d is not run; on      *)
(* every other input, null included, d is run on the input and the Result  *)
(* of optional(d) is the Result of d: the same value or the same message.   *)
(***************************************************************************)
C13_OptionalOnlyUndefined ==
  (outcome.op = "decode" /\ decoder.k = "optional") =>
    IF json = Undefined
    THEN /\ outcome.result = ok(Undefined)
         /\ Len(DecoderCalls) = 1
    ELSE /\ outcome.result = Decode(decoder.decoder, json, <<>>).r
         /\ Len(log) >= 2
         /\ log[2] = Call(<<>>, decoder.decoder, json)

\* null is handed to the wrapped decoder, which rejects it
C13_Witness ==
  /\ outcome.op = "decode"
  /\ decoder = optional(string)
  /\ json = Null
  /\ outcome.result = err("null is not a valid string")

\* undefined is answered without running the wrapped decoder, which would fail
C13_WitnessUndefined ==
  /\ outcome.op = "decode"
  /\ decoder = optional(fail("boom"))
  /\ json = Undefined
  /\ outcome.result = ok(Undefined)
  /\ Len(log) = 1

(***************************************************************************)
(* C14 fallback(defaultValue, d) is Ok on every input: the Ok of d when d  *)
(* succeeds, Ok(defaultValue) when d fails.  No entry point of the decoder *)
(* reports a failure: parse returns, the promise is fulfilled and validate *)
(* carries a value.                                                        *)
(***************************************************************************)
C14_FallbackAlwaysOk ==
  decoder.k = "fallback" =>
    LET inner == Decode(decoder.decoder, json, <<>>).r
        expected == IF isOk(inner) THEN inner.value ELSE decoder.defaultValue
    IN  /\ outcome.op = "decode" =>
             /\ isOk(outcome.result)
             /\ outcome.result = (IF isOk(inner) THEN inner
                                  ELSE ok(decoder.defaultValue))
        /\ outcome.op = "parse" =>
             outcome.status = "returned" /\ outcome.payload = expected
        /\ outcome.op = "decodePromise" =>
             outcome.status = "fulfilled" /\ outcome.payload = expected
        /\ outcome.op = "validate" =>
             outcome.status = "returned" /\ outcome.payload = [value |-> expected]

\* the wrapped decoder fails and its message is replaced by the default
C14_Witness ==
  /\ outcome.op = "decode"
  /\ decoder = fallback(Num(0), number)
  /\ json = Str("x")
  /\ ~isOk(Decode(number, json, <<>>).r)
  /\ outcome.result = ok(Num(0))

(***************************************************************************)
(* C15 oneOf hands the same input to its decoders in declaration order and *)
(* returns the Result of the first that succeeds; no decoder after it is   *)
(* run, so of several decoders that accept the input the earliest wins.    *)
(* When none succeeds the result is the oneOf error with the decoder name  *)
(* and the input.                                                          *)
(***************************************************************************)
AltResult(i) == Decode(decoder.decoders[i], json, <<>>).r

C15_OneOfFirstMatch ==
  (outcome.op = "decode" /\ decoder.k = "oneOf") =>
    LET n == Len(decoder.decoders)
        accepting == {i \in 1..n : isOk(AltResult(i))}
        last == IF accepting = {} THEN n ELSE Min(accepting)
    IN  /\ IF accepting # {}
           THEN outcome.result = AltResult(last)
           ELSE outcome.result
                  = err("<" \o decoder.decoderName \o "> decoder failed because "
                        \o JSONstringify(json)
                        \o " can't be decoded with any of the provided oneOf decoders")
        /\ ChildOrder = [i \in 1..last |-> Pos(i - 1)]
        /\ \A i \in 1..n :
             IF i <= last
             THEN /\ Len(ChildCalls(Pos(i - 1), decoder.decoders[i])) = 1
                  /\ ChildCalls(Pos(i - 1), decoder.decoders[i])[1].json = json
             ELSE CallsBelow(Pos(i - 1)) = <<>>

\* the second and the third decoder both accept the input, with different
\* values: the second one wins and the third is not run
C15_Witness ==
  /\ outcome.op = "decode"
  /\ decoder = oneOf(<<number, succeed, fallback(Num(0), number)>>,
                     "string | number")
  /\ json = Str("x")
  /\ AltResult(2) = ok(Str("x"))
  /\ AltResult(3) = ok(Num(0))
  /\ outcome.result = ok(Str("x"))
  /\ CallsBelow(Pos(2)) = <<>>

\* no decoder accepts the input
C15_WitnessNoneMatch ==
  /\ outcome.op = "decode"
  /\ decoder = oneOf(<<string, number>>, "string | number")
  /\ json = Bool(TRUE)
  /\ outcome.result
       = err("<string | number> decoder failed because true can't be decoded with any of the provided oneOf decoders")

(***************************************************************************)
(* C16 allOf on a plain-object input runs its decoders in order over an    *)
(* accumulator that starts as the input: decoder i is given the current    *)
(* accumulator and, when it succeeds, the accumulator becomes the deep     *)
(* merge of the accumulator with its output: the fields of the output      *)
(* override, a map under a key that holds a map on both sides is merged    *)
(* recursively, a list is replaced.  The result is Ok of the accumulator   *)
(* after the last decoder.                                                 *)
(***************************************************************************)
OwnKeys(v) == Range(ForInKeys(v))

\* m is target with the fields of source laid over it
RECURSIVE IsDeepMerge(_, _, _)
IsDeepMerge(m, target, source) ==
  /\ m.t = "object"
  /\ OwnKeys(m) = OwnKeys(target) \cup OwnKeys(source)
  /\ Len(m.entries) = Cardinality(OwnKeys(m))
  /\ \A key \in OwnKeys(m) :
       IF key \notin OwnKeys(source) THEN Get(m, key) = Get(target, key)
       ELSE IF /\ Get(source, key).t = "object"
               /\ key \in OwnKeys(target)
               /\ Get(target, key).t = "object"
       THEN IsDeepMerge(Get(m, key), Get(target, key), Get(source, key))
       ELSE Get(m, key) = Get(source, key)

\* the positions of the decoders of allOf or oneOf that were run
Ran == {i \in 1..Len(decoder.decoders) : CallsBelow(Pos(i - 1)) # <<>>}

\* what the decoder at position i was given, and what it answered
GivenTo(i) == ChildCalls(Pos(i - 1), decoder.decoders[i])[1].json

AnswerOf(i) == Decode(decoder.decoders[i], GivenTo(i), <<>>).r

C16_AllOfDeepMerges ==
  (outcome.op = "decode" /\ decoder.k = "allOf" /\ json.t = "object") =>
    LET n == Len(decoder.decoders)
    IN  /\ \A i \in Ran : Len(ChildCalls(Pos(i - 1), decoder.decoders[i])) = 1
        /\ \A i \in Ran : \A j \in 1..i : j \in Ran
        /\ \A i \in Ran :
             IF i = 1 THEN GivenTo(i) = json
             ELSE /\ isOk(AnswerOf(i - 1))
                  /\ IsDeepMerge(GivenTo(i), GivenTo(i - 1), AnswerOf(i - 1).value)
        /\ (\A i \in 1..n : i \in Ran /\ isOk(AnswerOf(i))) =>
             /\ isOk(outcome.result)
             /\ IF n = 0 THEN outcome.result.value = json
                ELSE IsDeepMerge(outcome.result.value, GivenTo(n), AnswerOf(n).value)
        /\ isOk(outcome.result) => \A i \in 1..n : i \in Ran /\ isOk(AnswerOf(i))

\* the second decoder sees the field the first one changed
C16_Witness ==
  /\ outcome.op = "decode"
  /\ decoder = allOf(<<PlusOne, PlusOne>>, "All")
  /\ json = Obj(<<Entry("a", Num(1))>>)
  /\ GivenTo(2) = Obj(<<Entry("a", Num(2))>>)
  /\ outcome.result = ok(Obj(<<Entry("a", Num(3))>>))

\* a nested map is merged: the key the decoder dropped is kept
C16_WitnessNested ==
  /\ outcome.op = "decode"
  /\ decoder
       = allOf(<<object(<<Field("a", object(<<Field("b", number)>>, "Inner"))>>,
                        "Outer"),
                 succeed>>, "All")
  /\ json = Obj(<<Entry("a", Obj(<<Entry("b", Num(1)), Entry("k", Str("x"))>>))>>)
  /\ AnswerOf(1) = ok(Obj(<<Entry("a", Obj(<<Entry("b", Num(1))>>))>>))
  /\ outcome.result = ok(json)

\* a list is replaced by the list of the output
C16_WitnessList ==
  /\ outcome.op = "decode"
  /\ decoder.k = "allOf"
  /\ json = Obj(<<Entry("a", List(<<Str("x")>>)), Entry("b", Str("x"))>>)
  /\ outcome.result
       = ok(Obj(<<Entry("a", List(<<Num(0)>>)), Entry("b", Str("x"))>>))

(***************************************************************************)
(* C17 allOf on a list input hands the input list itself to every decoder  *)
(* it runs, and when all succeed the result is Ok of the input list,       *)
(* whatever the decoders answered.                                         *)
(***************************************************************************)
C17_AllOfKeepsLists ==
  (outcome.op = "decode" /\ decoder.k = "allOf" /\ json.t = "array") =>
    LET n == Len(decoder.decoders)
    IN  /\ \A i \in Ran :
             /\ Len(ChildCalls(Pos(i - 1), decoder.decoders[i])) = 1
             /\ GivenTo(i) = json
        /\ (\A i \in 1..n : isOk(Decode(decoder.decoders[i], json, <<>>).r)) =>
             /\ Ran = 1..n
             /\ outcome.result = ok(json)
        /\ isOk(outcome.result) => outcome.result.value = json

\* the first decoder answers [0]; the second is given ["x"] all the same,
\* and the result is ["x"]
C17_Witness ==
  /\ outcome.op = "decode"
  /\ decoder = allOf(<<array(fallback(Num(0), number), "items"),
                       array(string, "items")>>, "All")
  /\ json = List(<<Str("x")>>)
  /\ AnswerOf(1) = ok(List(<<Num(0)>>))
  /\ GivenTo(2) = json
  /\ outcome.result = ok(json)

(***************************************************************************)
(* C18 allOf succeeds only if every decoder succeeds.  When the decoder at *)
(* position i, counted from zero, is the first to fail, with message m,    *)
(* the result is the allOf indexed error with the decoder name, i and m,   *)
(* and no decoder after position i is run.                                 *)
(***************************************************************************)
C18_AllOfFirstFailure ==
  (outcome.op = "decode" /\ decoder.k = "allOf") =>
    LET n == Len(decoder.decoders)
        failing == {i \in Ran : ~isOk(AnswerOf(i))}
    IN  /\ isOk(outcome.result) => (Ran = 1..n /\ failing = {})
        /\ failing = {} => (Ran = 1..n /\ isOk(outcome.result))
        /\ failing # {} =>
             /\ outcome.result
                  = err("<" \o decoder.decoderName
                        \o "> allOf decoder failed at index #"
                        \o ToString(Min(failing) - 1) \o " with \""
                        \o AnswerOf(Min(failing)).error \o "\"")
             /\ Ran = 1..Min(failing)

\* the second of three decoders fails: index 1, its message, the third not run
C18_Witness ==
  /\ outcome.op = "decode"
  /\ decoder = allOf(<<succeed, fail("boom"), string>>, "All")
  /\ json = Str("x")
  /\ outcome.result = err("<All> allOf decoder failed at index #1 with \"boom\"")
  /\ CallsBelow(Pos(2)) = <<>>

(***************************************************************************)
(* C19 building a lazy decoder does not call the function it was given;    *)
(* each call of decode on it calls the function once, before anything      *)
(* else, and returns what the decoder the function built returns on the    *)
(* input.  Nothing is kept from one call to the next: a later call does    *)
(* the same.                                                               *)
(***************************************************************************)
\* the calls of the function of the lazy decoder under test
ThunkCalls == SelectSeq(log, LAMBDA e : "thunk" \in DOMAIN e /\ e.path = <<>>)

C19_LazyCallsThunkPerDecode ==
  decoder.k = "lazy" =>
    /\ outcome.op = "none" => ThunkCalls = <<>>
    /\ outcome.op # "none" =>
         /\ ThunkCalls = <<ThunkCall(<<>>, decoder.mkDecoder)>>
         /\ log[2] = ThunkCall(<<>>, decoder.mkDecoder)
         /\ log[3] = Call(<<>>, ApplyThunk(decoder.mkDecoder), json)
    /\ outcome.op = "decode" =>
         outcome.result = Decode(ApplyThunk(decoder.mkDecoder), json, <<>>).r

\* a decode on the lazy decoder: one call of the function, the Result of the
\* decoder it built
C19_Witness ==
  /\ outcome.op = "decode"
  /\ decoder = lazy("squareThunk")
  /\ json = Square
  /\ ThunkCalls = <<ThunkCall(<<>>, "squareThunk")>>
  /\ outcome.result = ok(Square)

(***************************************************************************)
(* C20 the tree decoder, whose children field is decoded through lazy with *)
(* a list decoder of the tree decoder itself, returns a Result on every    *)
(* input; the node decoder is entered at most as deep as the input is      *)
(* nested; the Result is Ok exactly when every node at every level is a    *)
(* map with a string value and, if it has children, a list of such nodes,  *)
(* so it is an Err when a descendant lacks its value.                      *)
(***************************************************************************)
Max(S) == CHOOSE x \in S : \A y \in S : y <= x

\* how deep maps and lists are nested in a value
RECURSIVE Depth(_)
Depth(v) ==
  CASE v.t = "array" ->
         1 + Max({0} \cup {Depth(v.items[i]) : i \in 1..Len(v.items)})
    [] v.t = "object" ->
         1 + Max({0} \cup {Depth(v.entries[i].value) : i \in 1..Len(v.entries)})
    [] OTHER -> 0

RECURSIVE ValidNode(_)
ValidNode(v) ==
  /\ v.t = "object"
  /\ Get(v, "value").t = "string"
  /\ \/ Get(v, "children") = Undefined
     \/ /\ Get(v, "children").t = "array"
        /\ \A i \in 1..Len(Get(v, "children").items) :
             ValidNode(Get(v, "children").items[i])

\* the decoded tree: every node with its list of children
RECURSIVE DecodedNode(_)
DecodedNode(v) ==
  Obj(<<Entry("value", Get(v, "value")),
        Entry("children",
              IF Get(v, "children") = Undefined THEN List(<<>>)
              ELSE List([i \in 1..Len(Get(v, "children").items) |->
                           DecodedNode(Get(v, "children").items[i])]))>>)

IsProperPrefix(p, q) == Len(p) < Len(q) /\ SubSeq(q, 1, Len(p)) = p

\* the calls of the node decoder
NodeCalls == {j \in 1..Len(log) : "k" \in DOMAIN log[j] /\ log[j].k = "object"}

\* the number of calls of the node decoder the call j is nested in
Level(j) ==
  Cardinality({i \in NodeCalls : IsProperPrefix(log[i].path, log[j].path)})

C20_TreeDecoder ==
  (outcome.op = "decode" /\ decoder = treeDecoder) =>
    /\ outcome.result.kind \in {"Ok", "Err"}
    /\ \A j \in NodeCalls :
         /\ Level(j) <= Depth(json)
         /\ 2 * Level(j) + Depth(log[j].json) <= Depth(json)
    /\ isOk(outcome.result) <=> ValidNode(json)
    /\ isOk(outcome.result) => outcome.result.value = DecodedNode(json)

\* three levels of nodes, all valid: the node decoder is entered two deep
C20_Witness ==
  /\ outcome.op = "decode"
  /\ decoder = treeDecoder
  /\ json = Parent(List(<<Leaf, Parent(List(<<Leaf, Leaf>>))>>))
  /\ isOk(outcome.result)
  /\ \E j \in NodeCalls : Level(j) = 2

\* the same tree with a grandchild without its value
C20_WitnessMissingValue ==
  /\ outcome.op = "decode"
  /\ decoder = treeDecoder
  /\ json = Parent(List(<<Leaf, Parent(List(<<Leaf, Obj(<<>>)>>))>>))
  /\ ~isOk(outcome.result)

(***************************************************************************)
(* C21 enumeration succeeds, with the member value, exactly on the inputs  *)
(* strictly equal to the value of a member of the enum; on every other     *)
(* input, a string equal to the name of a member of a numeric enum         *)
(* included, it fails with the enum-value error naming the decoder and the *)
(* input.                                                                  *)
(***************************************************************************)
\* an entry of the run-time object that maps a number value back to a name
IsReverseMapping(enumObj, e) ==
  /\ e.value.t = "string"
  /\ Get(enumObj, e.value.s).t = "number"
  /\ ToString(Get(enumObj, e.value.s).n) = e.key

\* the values of the declared members
MemberValues(enumObj) ==
  {e.value : e \in {x \in Range(enumObj.entries) : ~IsReverseMapping(enumObj, x)}}

C21_EnumMemberValuesOnly ==
  (outcome.op = "decode" /\ decoder.k = "enumeration") =>
    IF json \in MemberValues(decoder.enumObj)
    THEN outcome.result = ok(json)
    ELSE outcome.result
           = err("<" \o decoder.decoderName \o "> decoder failed at value \""
                 \o StringOf(json) \o "\" which is not in the enum")

\* what holds: the accepted inputs are the values of the run-time object,
\* member names of number members included
C21_EnumObjectValues ==
  (outcome.op = "decode" /\ decoder.k = "enumeration") =>
    IF json \in Range(ObjectValues(decoder.enumObj))
    THEN outcome.result = ok(json)
    ELSE outcome.result
           = err("<" \o decoder.decoderName \o "> decoder failed at value \""
                 \o StringOf(json) \o "\" which is not in the enum")

\* the name of a member of a numeric enum is accepted
C21_MemberNameAccepted ==
  /\ outcome.op = "decode"
  /\ decoder = enumeration(IntEnum, "IntEnum")
  /\ json = Str("A")
  /\ json \notin MemberValues(IntEnum)
  /\ outcome.result = ok(Str("A"))

C23_ResultWellFormed ==
  outcome.op = "decode" =>
    \/ /\ outcome.result.kind = "Ok"
       /\ DOMAIN outcome.result = {"kind", "value"}
    \/ /\ outcome.result.kind = "Err"
       /\ DOMAIN outcome.result = {"kind", "error"}
       /\ outcome.result.error # ""

\* what holds: one of the two variants, the message being any string
C23_OkOrErr ==
  outcome.op = "decode" =>
    \/ /\ outcome.result.kind = "Ok"
       /\ DOMAIN outcome.result = {"kind", "value"}
    \/ /\ outcome.result.kind = "Err"
       /\ DOMAIN outcome.result = {"kind", "error"}
       /\ outcome.result.error \in STRING

\* every Err with an empty message comes from a fail built with one
C23_EmptyOnlyFromFail ==
  (outcome.op = "decode" /\ outcome.result.kind = "Err"
     /\ outcome.result.error = "") => decoder = fail("")

\* fail('') gives an Err whose message is empty
C23_EmptyMessage ==
  /\ outcome.op = "decode"
  /\ decoder = fail("")
  /\ json = Num(1)
  /\ outcome.result = err("")

(***************************************************************************)
(* C24 in templateLiteral a decoder segment captures the input from the    *)
(* cursor up to the first occurrence, at or after the cursor, of the next  *)
(* later literal segment, a string or a number rendered as a string, or up *)
(* to the end of the input when there is no later literal; the cursor then *)
(* moves to the end of the captured substring; if the next literal does    *)
(* not occur, the decode fails with the template-mismatch error.           *)
(***************************************************************************)
\* the position, from one, of the next literal segment after segment i, 0
\* when there is none; strings only, or strings and numbers
NextLiteral(parts, i, stringsOnly) ==
  LET later == {j \in (i + 1)..Len(parts) :
                  /\ ~IsDecoderPart(parts[j])
                  /\ (stringsOnly => parts[j].t = "string")}
  IN  IF later = {} THEN 0 ELSE Min(later)

\* the cursor before segment i and the end of what the decoder segment i
\* captures, -1 when its next literal does not occur
RECURSIVE CursorAt(_, _, _, _)
RECURSIVE EndOf(_, _, _, _)
CursorAt(parts, s, i, stringsOnly) ==
  IF i = 1 THEN 0
  ELSE IF IsDecoderPart(parts[i - 1]) THEN EndOf(parts, s, i - 1, stringsOnly)
  ELSE CursorAt(parts, s, i - 1, stringsOnly) + Len(StringOf(parts[i - 1]))

EndOf(parts, s, i, stringsOnly) ==
  LET next == NextLiteral(parts, i, stringsOnly)
  IN  IF next = 0 THEN Len(s)
      ELSE indexOf(s, StringOf(parts[next]), CursorAt(parts, s, i, stringsOnly))

Captured(parts, s, i, stringsOnly) ==
  substring(s, CursorAt(parts, s, i, stringsOnly), EndOf(parts, s, i, stringsOnly))

\* segment i lets the decode go on to the next segment
Passed(parts, s, i, stringsOnly) ==
  IF IsDecoderPart(parts[i])
  THEN /\ EndOf(parts, s, i, stringsOnly) # -1
       /\ \/ isOk(Decode(parts[i], Str(Captured(parts, s, i, stringsOnly)), <<>>).r)
          \/ isOk(Decode(parts[i], parseInt(Captured(parts, s, i, stringsOnly)),
                         <<>>).r)
  ELSE startsWith(s, StringOf(parts[i]), CursorAt(parts, s, i, stringsOnly))

MismatchError == err(exactlyError(json, Str(template(decoder.parts))))

CapturesUpToNextLiteral(stringsOnly) ==
  (outcome.op = "decode" /\ decoder.k = "templateLiteral" /\ json.t = "string") =>
    \A i \in 1..Len(decoder.parts) :
      (/\ IsDecoderPart(decoder.parts[i])
       /\ \A j \in 1..(i - 1) : Passed(decoder.parts, json.s, j, stringsOnly)) =>
        IF EndOf(decoder.parts, json.s, i, stringsOnly) = -1
        THEN /\ outcome.result = MismatchError
             /\ CallsBelow(Pos(i - 1)) = <<>>
        ELSE /\ CallsBelow(Pos(i - 1)) # <<>>
             /\ CallsBelow(Pos(i - 1))[1].json
                  = Str(Captured(decoder.parts, json.s, i, stringsOnly))

C24_CaptureUpToNextLiteral == CapturesUpToNextLiteral(FALSE)

\* what holds: the capture ends at the next later string literal; a number
\* literal is not looked for
C24_CaptureUpToNextStringLiteral == CapturesUpToNextLiteral(TRUE)

\* the capture runs past the number literal 1 to the string literal, and the
\* input of the pattern ?1px is rejected
C24_NumberLiteralSkipped ==
  /\ outcome.op = "decode"
  /\ decoder = templateLiteral(<<string, Num(1), Str("px")>>)
  /\ json = Str("a1px")
  /\ CallsBelow(Pos(0))[1].json = Str("a1")
  /\ outcome.result = err("\"a1px\" is not exactly \"?1px\"")

(***************************************************************************)
(* C25 templateLiteral fails with the template-mismatch error, whose       *)
(* pattern is the parts joined with ? in place of every decoder, when the  *)
(* input is not a string, when a literal segment does not match at the     *)
(* cursor, and when the cursor is not at the end of the input after the    *)
(* last segment; when it succeeds the result is the input string itself.   *)
(***************************************************************************)
RECURSIVE Pattern(_)
Pattern(parts) ==
  IF parts = <<>> THEN ""
  ELSE (IF "k" \in DOMAIN Head(parts) THEN "?"
        ELSE IF Head(parts).t = "string" THEN Head(parts).s
        ELSE ToString(Head(parts).n))
       \o Pattern(Tail(parts))

TemplateMismatch ==
  err(JSONstringify(json) \o " is not exactly \"" \o Pattern(decoder.parts) \o "\"")

C25_TemplateMismatch ==
  (outcome.op = "decode" /\ decoder.k = "templateLiteral") =>
    LET parts == decoder.parts
        n == Len(parts)
    IN  /\ json.t # "string" =>
             outcome.result = TemplateMismatch /\ Len(log) = 1
        /\ json.t = "string" =>
             /\ \A i \in 1..n :
                  (/\ ~IsDecoderPart(parts[i])
                   /\ \A j \in 1..(i - 1) : Passed(parts, json.s, j, TRUE)
                   /\ ~startsWith(json.s, StringOf(parts[i]),
                                  CursorAt(parts, json.s, i, TRUE))) =>
                    outcome.result = TemplateMismatch
             /\ (/\ \A j \in 1..n : Passed(parts, json.s, j, TRUE)
                 /\ CursorAt(parts, json.s, n + 1, TRUE) # Len(json.s)) =>
                  outcome.result = TemplateMismatch
             /\ (/\ \A j \in 1..n : Passed(parts, json.s, j, TRUE)
                 /\ CursorAt(parts, json.s, n + 1, TRUE) = Len(json.s)) =>
                  outcome.result = ok(json)
        /\ isOk(outcome.result) => outcome.result.value = json

\* the literal after the number does not match at the cursor
C25_Witness ==
  /\ outcome.op = "decode"
  /\ decoder = templateLiteral(<<number, Str("."), Unit>>)
  /\ json = Str("100px")
  /\ outcome.result = err("\"100px\" is not exactly \"?.?\"")

\* leftover input after the last segment
C25_WitnessLeftover ==
  /\ outcome.op = "decode"
  /\ decoder = templateLiteral(<<Str("hi")>>)
  /\ json = Str("hix")
  /\ outcome.result = err("\"hix\" is not exactly \"hi\"")

\* an input that is not a string
C25_WitnessNotAString ==
  /\ outcome.op = "decode"
  /\ decoder = templateLiteral(<<number, Str("px")>>)
  /\ json = Num(2)
  /\ outcome.result = err("2 is not exactly \"?px\"")

\* success: the input string itself
C25_WitnessOk ==
  /\ outcome.op = "decode"
  /\ decoder = templateLiteral(<<number, Str("px")>>)
  /\ json = Str("100px")
  /\ outcome.result = ok(Str("100px"))

(***************************************************************************)
(* C26 In templateLiteral the substring captured for a decoder segment is  *)
(* decoded first as the raw string; only when that fails it is decoded     *)
(* once more as parseInt of the substring, and never a third time; the     *)
(* decode fails with a sub-decoder's failure only when both attempts of    *)
(* that segment fail, and the failure is that of the second attempt.       *)
(***************************************************************************)
SegmentRan(i) ==
  /\ IsDecoderPart(decoder.parts[i])
  /\ \A j \in 1..(i - 1) : Passed(decoder.parts, json.s, j, TRUE)
  /\ EndOf(decoder.parts, json.s, i, TRUE) # -1

RawAttempt(i) ==
  Decode(decoder.parts[i], Str(Captured(decoder.parts, json.s, i, TRUE)), <<>>).r

IntegerAttempt(i) ==
  Decode(decoder.parts[i], parseInt(Captured(decoder.parts, json.s, i, TRUE)), <<>>).r

C26_RawThenParsedInteger ==
  (outcome.op = "decode" /\ decoder.k = "templateLiteral" /\ json.t = "string") =>
    /\ \A i \in 1..Len(decoder.parts) :
         LET attempts == SelectSeq(log, LAMBDA e : "k" \in DOMAIN e
                                                     /\ e.path = <<Pos(i - 1)>>)
             captured == Captured(decoder.parts, json.s, i, TRUE)
         IN  IF ~SegmentRan(i) THEN attempts = <<>>
             ELSE /\ Len(attempts) >= 1
                  /\ attempts[1].json = Str(captured)
                  /\ isOk(RawAttempt(i)) => Len(attempts) = 1
                  /\ ~isOk(RawAttempt(i)) =>
                       /\ Len(attempts) = 2
                       /\ attempts[2].json = parseInt(captured)
                       /\ ~isOk(IntegerAttempt(i)) => outcome.result = IntegerAttempt(i)
    /\ (~isOk(outcome.result) /\ outcome.result # MismatchError) =>
         \E i \in 1..Len(decoder.parts) :
           /\ SegmentRan(i)
           /\ ~isOk(RawAttempt(i))
           /\ ~isOk(IntegerAttempt(i))
           /\ outcome.result = IntegerAttempt(i)

\* the raw string fails and the parsed integer is accepted
C26_Witness ==
  /\ outcome.op = "decode"
  /\ decoder = templateLiteral(<<number, Str("px")>>)
  /\ json = Str("100px")
  /\ ~isOk(RawAttempt(1))
  /\ IntegerAttempt(1) = ok(Num(100))
  /\ outcome.result = ok(json)

\* both attempts fail: the failure of the second attempt is the result
C26_WitnessBothFail ==
  /\ outcome.op = "decode"
  /\ decoder = templateLiteral(<<boolean, Str("px")>>)
  /\ json = Str("truepx")
  /\ RawAttempt(1) = err(primitiveError(Str("true"), "boolean"))
  /\ IntegerAttempt(1) = err(primitiveError(NaN, "boolean"))
  /\ outcome.result = IntegerAttempt(1)

\* the raw string is accepted: one attempt only
C26_WitnessRawAccepted ==
  /\ outcome.op = "decode"
  /\ decoder = templateLiteral(<<Str("prefix."), string, Str(".suffix")>>)
  /\ json = Str("prefix.x.suffix")
  /\ RawAttempt(2) = ok(Str("x"))
  /\ outcome.result = ok(json)

(***************************************************************************)
(* C27 templateLiteral([number(), 'px']).decode(s) succeeds only when the  *)
(* part of s before 'px' is the decimal text of a number: an optional      *)
(* sign, digits, and an optional fraction; 'abcpx', '12abcpx' and 'px' are *)
(* rejected.                                                               *)
(***************************************************************************)
RECURSIVE AllDecimalDigits(_, _, _)
AllDecimalDigits(s, from, to) ==
  \/ from >= to
  \/ /\ DigitOf(CharAt(s, from)) < 10
     /\ CharAt(s, from) \notin {"a", "A"}
     /\ AllDecimalDigits(s, from + 1, to)

IsDecimalText(s) ==
  LET start == IF CharAt(s, 0) = "-" THEN 1 ELSE 0
      dot == indexOf(s, ".", start)
      intEnd == IF dot = -1 THEN Len(s) ELSE dot
  IN  /\ intEnd > start
      /\ AllDecimalDigits(s, start, intEnd)
      /\ dot # -1 => (Len(s) > dot + 1 /\ AllDecimalDigits(s, dot + 1, Len(s)))

C27_NumberPxAcceptsNumbersOnly ==
  (/\ outcome.op = "decode"
   /\ decoder = templateLiteral(<<number, Str("px")>>)
   /\ json.t = "string"
   /\ isOk(outcome.result)) =>
    /\ indexOf(json.s, "px", 0) # -1
    /\ IsDecimalText(substring(json.s, 0, indexOf(json.s, "px", 0)))

\* 'abcpx' is accepted: parseInt('abc') is NaN and number() accepts NaN
C27_NotANumberAccepted ==
  /\ outcome.op = "decode"
  /\ decoder = templateLiteral(<<number, Str("px")>>)
  /\ json = Str("abcpx")
  /\ outcome.result = ok(Str("abcpx"))

(***************************************************************************)
(* C28 For an input that is neither a plain object nor a list, allOf is a  *)
(* value-replacing pipeline: the first decoder is given the input, the     *)
(* decoder at position i the output of the decoder at position i - 1, and  *)
(* when all succeed the result is Ok of the last decoder's output.         *)
(***************************************************************************)
C28_AllOfPipesScalars ==
  (outcome.op = "decode" /\ decoder.k = "allOf" /\ json.t \notin {"object", "array"}) =>
    LET n == Len(decoder.decoders)
    IN  /\ \A i \in Ran : Len(ChildCalls(Pos(i - 1), decoder.decoders[i])) = 1
        /\ \A i \in Ran : \A j \in 1..i : j \in Ran
        /\ n > 0 => 1 \in Ran
        /\ \A i \in Ran :
             IF i = 1 THEN GivenTo(i) = json
             ELSE /\ isOk(AnswerOf(i - 1))
                  /\ GivenTo(i) = AnswerOf(i - 1).value
        /\ (\A i \in Ran : isOk(AnswerOf(i))) =>
             /\ Ran = 1..n
             /\ outcome.result = ok(IF n = 0 THEN json ELSE AnswerOf(n).value)

\* "x" becomes 0 in the first decoder; the second is given 0 and the result
\* is 0
C28_Witness ==
  /\ outcome.op = "decode"
  /\ decoder = allOf(<<fallback(Num(0), number), number>>, "All")
  /\ json = Str("x")
  /\ AnswerOf(1) = ok(Num(0))
  /\ GivenTo(2) = Num(0)
  /\ outcome.result = ok(Num(0))

(***************************************************************************)
(* C29 When allOf succeeds on a plain-object input, every own key of the   *)
(* input is a key of the result, also a key that no decoder of the         *)
(* sequence answers; a single object decoder drops such a key.             *)
(***************************************************************************)
C29_AllOfKeepsInputKeys ==
  (/\ outcome.op = "decode"
   /\ decoder.k = "allOf"
   /\ json.t = "object"
   /\ isOk(outcome.result)) =>
    /\ outcome.result.value.t = "object"
    /\ OwnKeys(json) \subseteq OwnKeys(outcome.result.value)

\* the key k is answered by no decoder of the sequence and is in the result,
\* while the object decoder alone drops it
C29_Witness ==
  /\ outcome.op = "decode"
  /\ decoder.k = "allOf"
  /\ Len(decoder.decoders) > 0
  /\ json.t = "object"
  /\ isOk(outcome.result)
  /\ \A i \in 1..Len(decoder.decoders) : decoder.decoders[i].k = "object"
  /\ \E key \in OwnKeys(json) :
       /\ \A i \in 1..Len(decoder.decoders) : key \notin OwnKeys(AnswerOf(i).value)
       /\ key \in OwnKeys(outcome.result.value)
       /\ key \notin OwnKeys(Decode(decoder.decoders[1], json, <<>>).r.value)

(***************************************************************************)
(* C30 objectStrict refines object.  With the same fields and decoder name *)
(* and the same input: when objectStrict answers Ok(v), object answers     *)
(* Ok(v); when objectStrict fails with an error other than the unknown-key *)
(* error, object fails with the same message; and the two answers differ   *)
(* only when the input has a key outside the allowed set.                  *)
(***************************************************************************)
ObjectAnswer ==
  Decode(object(decoder.decoders, decoder.decoderName), json, <<>>).r

C30_ObjectStrictRefinesObject ==
  (outcome.op = "decode" /\ decoder.k = "objectStrict") =>
    /\ isOk(outcome.result) => ObjectAnswer = outcome.result
    /\ (~isOk(outcome.result) /\ ~IsUnknownKeyError(outcome.result)) =>
         ObjectAnswer = outcome.result
    /\ ObjectAnswer # outcome.result =>
         /\ IsUnknownKeyError(outcome.result)
         /\ InputKeys \ AllowedInputKeys # {}

\* a field fails in both decoders with the same message
C30_Witness ==
  /\ outcome.op = "decode"
  /\ decoder = objectStrict(<<Field("a", string)>>, "User")
  /\ json = Obj(<<Entry("a", Num(1))>>)
  /\ outcome.result = err(objectError("User", "a", primitiveError(Num(1), "string")))
  /\ ObjectAnswer = outcome.result

\* both decoders answer the same value
C30_WitnessOk ==
  /\ outcome.op = "decode"
  /\ decoder = objectStrict(<<Field("a", string)>>, "User")
  /\ json = Obj(<<Entry("a", Str("x"))>>)
  /\ outcome.result = ok(json)
  /\ ObjectAnswer = outcome.result

\* the two differ on an input with a key that is not allowed
C30_WitnessDiffer ==
  /\ outcome.op = "decode"
  /\ decoder = objectStrict(<<Field("a", string)>>, "User")
  /\ json = Obj(<<Entry("a", Str("x")), Entry("k", Str("x"))>>)
  /\ IsUnknownKeyError(outcome.result)
  /\ ObjectAnswer = ok(Obj(<<Entry("a", Str("x"))>>))

====
